---- MODULE Spec2Model ----
(***************************************************************************)
(* Model of the grpc-guardian middleware library.                          *)
(*                                                                         *)
(*   - the circuit breaker of middleware/timeout.go (CircuitBreaker,        *)
(*     CircuitBreakerMiddleware), specification Spec;                       *)
(*   - the retry engine of middleware/retry.go (Retry), specifications      *)
(*     SpecRetry and SpecBackoff;                                           *)
(*   - the Timeout middleware of middleware/timeout.go, alone               *)
(*     (SpecTimeout) and around the retry interceptor (SpecTimeoutRetry);   *)
(*   - the rate limiters of middleware/ratelimit.go (SpecRateLimit,         *)
(*     SpecPerClient, SpecAdaptive, SpecWait);                              *)
(*   - the cache: its MemoryBackend (SpecBackend, SpecConcurrent) and the   *)
(*     Cache middleware (SpecCache, SpecFlight);                            *)
(*   - the Chain of guardian.go (SpecChain, SpecChainOps);                  *)
(*   - the constructors and their options (SpecConfig);                     *)
(*   - the breaker under a burst (SpecWindow) and its probes under fair     *)
(*     scheduling (SpecProbe).                                              *)
(*                                                                         *)
(* Time is a discrete clock `now`; a duration is a number of ticks.         *)
(***************************************************************************)
EXTENDS Integers, Sequences, FiniteSets, TLC

VARIABLES
    cb,        \* the CircuitBreaker object: configuration, state, counters
    now,       \* time.Now()
    inflight,  \* generation -> number of admitted requests whose handler runs
    last,      \* what the last call returned to its caller
    calls,     \* number of times the inner handler was invoked
    retry,     \* the Retry object (its policy)
    call,      \* one call through Retry.UnaryServerInterceptor
    tm,        \* one call through the Timeout middleware
    timer,     \* the time.After timer of the retry interceptor's select
    rl,        \* the RateLimit middleware: its token bucket and its requests
    pcl,       \* the PerClientRateLimiter object
    procs,     \* the goroutines calling the per-client middleware
    arl,       \* the AdaptiveRateLimiter object
    wt,        \* one call through the RateLimitWithWait middleware
    mb,        \* the MemoryBackend object of the cache
    cmw,       \* the Cache middleware: its configuration and its calls
    gor,       \* the goroutines using the MemoryBackend concurrently
    chn,       \* a Chain and one call through one of its interceptors
    cons       \* the last construction of a middleware from its options

cbVars == <<cb, now, inflight, last, calls>>
retryVars == <<retry, call>>
tmVars == <<tm, timer>>
rlVars == <<rl, pcl, procs>>
adaptVars == <<arl, wt>>
cacheVars == <<mb, cmw, gor>>
chainVars == <<chn>>
configVars == <<cons>>
vars == <<cb, now, inflight, last, calls, retry, call, tm, timer, rl, pcl, procs,
          arl, wt, mb, cmw, gor, chn, cons>>

\* what the actions of one component leave alone
nonBreakerVars == <<retryVars, tmVars, rlVars, adaptVars, cacheVars, chainVars, configVars>>
nonRetryVars == <<cbVars, tmVars, rlVars, adaptVars, cacheVars, chainVars, configVars>>
nonTimeoutVars == <<cb, inflight, last, calls, rlVars, adaptVars, cacheVars, chainVars, configVars>>
nonRateVars ==
    <<cb, inflight, last, calls, retryVars, tmVars, adaptVars, cacheVars, chainVars,
      configVars>>
nonAdaptVars == <<cbVars, retryVars, tmVars, rlVars, cacheVars, chainVars, configVars>>
nonCacheVars ==
    <<cb, inflight, last, calls, retryVars, tmVars, rlVars, adaptVars, chainVars,
      configVars>>
nonChainVars == <<cbVars, retryVars, tmVars, rlVars, adaptVars, cacheVars, configVars>>
nonConfigVars == <<cbVars, retryVars, tmVars, rlVars, adaptVars, cacheVars, chainVars>>

(***************************************************************************)
(* Bounds of the model.                                                    *)
(***************************************************************************)
MaxTime == 4
MaxGen == 3
MaxInFlight == 2
MaxCalls == 13

(***************************************************************************)
(* Circuit breaker: constants and pure helpers.                            *)
(***************************************************************************)
StateClosed == "Closed"
StateOpen == "Open"
StateHalfOpen == "HalfOpen"

ErrCircuitOpen == "circuit breaker is open"
ErrTooManyRequests == "too many requests"

\* shouldOpen's literal: the minimum number of requests before opening
MinRequests == 10

\* uint32 increment; the counters of the model stay below MaxCalls, far from
\* the wrap at 2^32
Inc32(n) == n + 1

\* Counts{}
ZeroCounts ==
    [Requests |-> 0, TotalSuccesses |-> 0, TotalFailures |-> 0,
     ConsecutiveSuccesses |-> 0, ConsecutiveFailures |-> 0]

\* Errors a handler can return: nil, a status error with a code, or an error
\* that is no status error.
NilErr == [kind |-> "nil", code |-> "OK"]
PlainErr == [kind |-> "plain", code |-> "Unknown"]
StatusErr(c) == [kind |-> "status", code |-> c]

HandlerErrors ==
    {NilErr, PlainErr, StatusErr("Unavailable"), StatusErr("InvalidArgument")}

defaultIsFailure(err) ==
    IF err.kind = "nil" THEN FALSE
    ELSE IF err.kind # "status" THEN TRUE
    ELSE err.code \in {"Internal", "Unavailable", "DataLoss", "DeadlineExceeded"}

\* NewCircuitBreaker(opts...) at time t.  failureThreshold is the rational
\* ftNum/ftDen (0.6 = 3/5, 0.5 = 1/2).
NewCircuitBreaker(maxRequests, interval, timeout, ftNum, ftDen, successThreshold, t) ==
    [maxRequests      |-> maxRequests,
     interval         |-> interval,
     timeout          |-> timeout,
     ftNum            |-> ftNum,
     ftDen            |-> ftDen,
     successThreshold |-> successThreshold,
     state            |-> StateClosed,
     generation       |-> 0,
     stateChangedAt   |-> t,
     counts           |-> ZeroCounts,
     halfOpenRequests |-> 0,
     onStateChange    |-> << >>]

resetCounts(c) == [c EXCEPT !.counts = ZeroCounts]

\* Variant: a state change keeps the counts
setState_KeepCounts(c, newState, t) ==
    IF c.state = newState THEN c
    ELSE [c EXCEPT
            !.state = newState,
            !.stateChangedAt = t,
            !.generation = c.generation + 1,
            !.halfOpenRequests = IF newState = StateHalfOpen THEN 0 ELSE @,
            !.onStateChange = Append(@, <<c.state, newState>>)]

\* setState: c.onStateChange collects the callback invocations (from, to).
setState(c, newState, t) ==
    IF c.state = newState THEN c
    ELSE [c EXCEPT
            !.state = newState,
            !.stateChangedAt = t,
            !.generation = c.generation + 1,
            !.counts = ZeroCounts,
            !.halfOpenRequests = IF newState = StateHalfOpen THEN 0 ELSE @,
            !.onStateChange = Append(@, <<c.state, newState>>)]

\* Variant: the breaker leaves Open only after more than timeout
currentState_Late(c, t) ==
    CASE c.state = StateClosed ->
            IF c.interval > 0 /\ t - c.stateChangedAt > c.interval
            THEN resetCounts(c) ELSE c
      [] c.state = StateOpen ->
            IF t - c.stateChangedAt > c.timeout
            THEN setState(c, StateHalfOpen, t) ELSE c
      [] OTHER -> c

\* currentState(now): the breaker after the time-driven refresh; the state and
\* generation the code returns are the fields of the result.
currentState(c, t) ==
    CASE c.state = StateClosed ->
            IF c.interval > 0 /\ t - c.stateChangedAt > c.interval
            THEN resetCounts(c) ELSE c
      [] c.state = StateOpen ->
            IF t - c.stateChangedAt >= c.timeout
            THEN setState(c, StateHalfOpen, t) ELSE c
      [] OTHER -> c

\* Variant: the failure rate must exceed the threshold strictly
shouldOpen_Strict(c) ==
    IF c.counts.Requests < MinRequests THEN FALSE
    ELSE c.counts.TotalFailures * c.ftDen > c.ftNum * c.counts.Requests

\* float64(TotalFailures)/float64(Requests) >= failureThreshold, as exact
\* rationals: for uint32 counts and a threshold with a small denominator the
\* correctly rounded quotient compares like the exact one.
shouldOpen(c) ==
    IF c.counts.Requests < MinRequests THEN FALSE
    ELSE c.counts.TotalFailures * c.ftDen >= c.ftNum * c.counts.Requests

\* Variant: the Open state is not checked
beforeRequest_OpenAdmits(c0, t) ==
    LET c == currentState(c0, t) IN
    IF c.state = StateHalfOpen /\ c.halfOpenRequests >= c.maxRequests
    THEN <<c, c.generation, ErrTooManyRequests>>
    ELSE LET c1 == IF c.state = StateHalfOpen
                   THEN [c EXCEPT !.halfOpenRequests = Inc32(@)] ELSE c
         IN <<[c1 EXCEPT !.counts.Requests = Inc32(@)], c.generation, "nil">>

\* Variant: one probe more than maxRequests is admitted
beforeRequest_OffByOne(c0, t) ==
    LET c == currentState(c0, t) IN
    IF c.state = StateOpen THEN <<c, c.generation, ErrCircuitOpen>>
    ELSE IF c.state = StateHalfOpen /\ c.halfOpenRequests > c.maxRequests
         THEN <<c, c.generation, ErrTooManyRequests>>
    ELSE LET c1 == IF c.state = StateHalfOpen
                   THEN [c EXCEPT !.halfOpenRequests = Inc32(@)] ELSE c
         IN <<[c1 EXCEPT !.counts.Requests = Inc32(@)], c.generation, "nil">>

\* beforeRequest: <<breaker after the call, generation returned, error returned>>
beforeRequest(c0, t) ==
    LET c == currentState(c0, t) IN
    IF c.state = StateOpen THEN <<c, c.generation, ErrCircuitOpen>>
    ELSE IF c.state = StateHalfOpen /\ c.halfOpenRequests >= c.maxRequests
         THEN <<c, c.generation, ErrTooManyRequests>>
    ELSE LET c1 == IF c.state = StateHalfOpen
                   THEN [c EXCEPT !.halfOpenRequests = Inc32(@)] ELSE c
         IN <<[c1 EXCEPT !.counts.Requests = Inc32(@)], c.generation, "nil">>

\* Variant: the generation of the outcome is not compared
afterRequest_NoGeneration(c0, generation, err, t) ==
    LET c == currentState(c0, t) IN
    IF defaultIsFailure(err)
    THEN LET c1 == [c EXCEPT !.counts.TotalFailures = Inc32(@),
                             !.counts.ConsecutiveFailures = Inc32(@),
                             !.counts.ConsecutiveSuccesses = 0]
         IN IF c.state = StateHalfOpen THEN setState(c1, StateOpen, t)
            ELSE IF c.state = StateClosed /\ shouldOpen(c1) THEN setState(c1, StateOpen, t)
            ELSE c1
    ELSE LET c1 == [c EXCEPT !.counts.TotalSuccesses = Inc32(@),
                             !.counts.ConsecutiveSuccesses = Inc32(@),
                             !.counts.ConsecutiveFailures = 0]
         IN IF c.state = StateHalfOpen
               /\ c1.counts.ConsecutiveSuccesses >= c.successThreshold
            THEN setState(c1, StateClosed, t)
            ELSE c1

\* Variant: a failed probe is judged by the failure rate, like a failure in Closed
afterRequest_ProbeByRate(c0, generation, err, t) ==
    LET c == currentState(c0, t) IN
    IF generation # c.generation THEN c
    ELSE IF defaultIsFailure(err)
    THEN LET c1 == [c EXCEPT !.counts.TotalFailures = Inc32(@),
                             !.counts.ConsecutiveFailures = Inc32(@),
                             !.counts.ConsecutiveSuccesses = 0]
         IN IF shouldOpen(c1) THEN setState(c1, StateOpen, t) ELSE c1
    ELSE LET c1 == [c EXCEPT !.counts.TotalSuccesses = Inc32(@),
                             !.counts.ConsecutiveSuccesses = Inc32(@),
                             !.counts.ConsecutiveFailures = 0]
         IN IF c.state = StateHalfOpen
               /\ c1.counts.ConsecutiveSuccesses >= c.successThreshold
            THEN setState(c1, StateClosed, t)
            ELSE c1

\* afterRequest(generation, err): the breaker after the call
afterRequest(c0, generation, err, t) ==
    LET c == currentState(c0, t) IN
    IF generation # c.generation THEN c
    ELSE IF defaultIsFailure(err)
    THEN LET c1 == [c EXCEPT !.counts.TotalFailures = Inc32(@),
                             !.counts.ConsecutiveFailures = Inc32(@),
                             !.counts.ConsecutiveSuccesses = 0]
         IN IF c.state = StateHalfOpen THEN setState(c1, StateOpen, t)
            ELSE IF c.state = StateClosed /\ shouldOpen(c1) THEN setState(c1, StateOpen, t)
            ELSE c1
    ELSE LET c1 == [c EXCEPT !.counts.TotalSuccesses = Inc32(@),
                             !.counts.ConsecutiveSuccesses = Inc32(@),
                             !.counts.ConsecutiveFailures = 0]
         IN IF c.state = StateHalfOpen
               /\ c1.counts.ConsecutiveSuccesses >= c.successThreshold
            THEN setState(c1, StateClosed, t)
            ELSE c1

\* Reset()
Reset(c, t) == setState(c, StateClosed, t)

\* status.Errorf(codes.Unavailable, "circuit breaker: %v", err)
RejectStatus(err) == [code |-> "Unavailable", msg |-> "circuit breaker: " \o err]
NoStatus == [code |-> "OK", msg |-> ""]

\* What a call returned: op is the operation, gen and err the results of
\* beforeRequest, status the error the middleware returned when it rejected,
\* failure what isFailure said of the outcome given to afterRequest.
NoReturn == [op |-> "new", gen |-> 0, err |-> "nil", status |-> NoStatus, failure |-> FALSE]

(***************************************************************************)
(* Retry engine: policy and pure helpers.  A duration is a whole number of  *)
(* milliseconds (the defaults 100 ms and 10 s are 100 and 10000), and the   *)
(* truncation of time.Duration(float) is taken at that unit.                *)
(***************************************************************************)
DefaultRetryableCodes == {"Unavailable", "ResourceExhausted", "Aborted", "DeadlineExceeded"}

\* The options given to NewRetry: a value an option function rejects (n <= 0,
\* d <= 0, m <= 1) leaves the default, like an option that is not given;
\* codes is << >> without a WithRetryableCodes option and <<the set>> with one.
DefaultOptions ==
    [maxAttempts |-> 0, initialBackoff |-> 0, maxBackoff |-> 0,
     mulNum |-> 1, mulDen |-> 1, jitter |-> TRUE, codes |-> << >>]

\* NewRetry(opts...): the multiplier is the rational mulNum/mulDen
NewRetry(o) ==
    [maxAttempts       |-> IF o.maxAttempts > 0 THEN o.maxAttempts ELSE 3,
     initialBackoff    |-> IF o.initialBackoff > 0 THEN o.initialBackoff ELSE 100,
     maxBackoff        |-> IF o.maxBackoff > 0 THEN o.maxBackoff ELSE 10000,
     mulNum            |-> IF o.mulNum > o.mulDen THEN o.mulNum ELSE 2,
     mulDen            |-> IF o.mulNum > o.mulDen THEN o.mulDen ELSE 1,
     jitter            |-> o.jitter,
     retryableErrors   |-> IF o.codes = << >> THEN DefaultRetryableCodes ELSE o.codes[1]]

\* Variant: every status error is retried, whatever its code
isRetryable_AnyStatus(r, err) == err.kind = "status"

\* status.FromError(err) fails for an error that is no status error; nil is
\* never passed
isRetryable(r, err) ==
    IF err.kind # "status" THEN FALSE ELSE err.code \in r.retryableErrors

RECURSIVE Pow(_, _)
Pow(b, e) == IF e = 0 THEN 1 ELSE b * Pow(b, e - 1)

\* Variant: the exponential backoff is not capped at maxBackoff
calculateBackoff_Uncapped(r, attempt) ==
    LET n == r.initialBackoff * Pow(r.mulNum, attempt - 1)
        d == Pow(r.mulDen, attempt - 1)
    IN IF r.jitter THEN 0..(n \div d) ELSE {n \div d}

\* calculateBackoff(attempt): the set of durations it can return.  Without
\* jitter the one value min(initialBackoff * multiplier^(attempt-1),
\* maxBackoff) truncated to a whole duration; with jitter rand.Float64() in
\* [0,1) times that value, truncated.
calculateBackoff(r, attempt) ==
    LET n == r.initialBackoff * Pow(r.mulNum, attempt - 1)
        d == Pow(r.mulDen, attempt - 1)
        capped == n > r.maxBackoff * d
        whole == IF capped THEN r.maxBackoff ELSE n \div d
        exact == capped \/ n % d = 0
    IN IF r.jitter
       THEN IF whole = 0 THEN {0}
            ELSE IF exact THEN 0..(whole - 1) ELSE 0..whole
       ELSE {whole}

\* Variant: the loop gives up one attempt early
afterAttempt_EarlyBreak(r, c, res) ==
    IF res.err.kind = "nil"
    THEN {[c EXCEPT !.pc = "done", !.ret = [resp |-> res.resp, err |-> NilErr]]}
    ELSE IF ~isRetryable(r, res.err)
    THEN {[c EXCEPT !.pc = "done", !.ret = res]}
    ELSE IF c.attempt + 1 >= r.maxAttempts
    THEN {[c EXCEPT !.pc = "done", !.ret = res]}
    ELSE {[c EXCEPT !.pc = "wait", !.backoff = b,
                    !.onRetry = Append(@, <<c.attempt, b>>)] :
             b \in calculateBackoff(r, c.attempt)}

\* Variant: a success after retries still reports the error of the attempt before
afterAttempt_StaleErr(r, c, res) ==
    IF res.err.kind = "nil"
    THEN {[c EXCEPT !.pc = "done",
                    !.ret = [resp |-> res.resp,
                             err |-> IF Len(c.trace) > 1
                                     THEN c.trace[Len(c.trace) - 1].err ELSE NilErr]]}
    ELSE IF ~isRetryable(r, res.err)
    THEN {[c EXCEPT !.pc = "done", !.ret = res]}
    ELSE IF c.attempt >= r.maxAttempts
    THEN {[c EXCEPT !.pc = "done", !.ret = res]}
    ELSE {[c EXCEPT !.pc = "wait", !.backoff = b,
                    !.onRetry = Append(@, <<c.attempt, b>>)] :
             b \in calculateBackoff(r, c.attempt)}

\* The statements after the handler returned res in attempt c.attempt (c is
\* the call, its trace already holding res): the set of calls that can result.
\* Success and a non-retryable error return at once, the last attempt breaks
\* out of the loop and returns resp, lastErr; otherwise the backoff is
\* computed, onRetry is called and the wait starts.
afterAttempt(r, c, res) ==
    IF res.err.kind = "nil"
    THEN {[c EXCEPT !.pc = "done", !.ret = [resp |-> res.resp, err |-> NilErr]]}
    ELSE IF ~isRetryable(r, res.err)
    THEN {[c EXCEPT !.pc = "done", !.ret = res]}
    ELSE IF c.attempt >= r.maxAttempts
    THEN {[c EXCEPT !.pc = "done", !.ret = res]}
    ELSE {[c EXCEPT !.pc = "wait", !.backoff = b,
                    !.onRetry = Append(@, <<c.attempt, b>>)] :
             b \in calculateBackoff(r, c.attempt)}

\* No call in progress
NoCall ==
    [pc |-> "idle", attempt |-> 0, trace |-> << >>, onRetry |-> << >>,
     backoff |-> 0, waits |-> << >>, ctxErr |-> "nil",
     ret |-> [resp |-> "nil", err |-> NilErr]]

\* ctx.Err() as an error value
CtxError(e) == [kind |-> "context", code |-> e]

\* What a handler can return
HandlerResults ==
    { [resp |-> "success", err |-> NilErr],
      [resp |-> "nil", err |-> StatusErr("Unavailable")],
      [resp |-> "nil", err |-> StatusErr("Aborted")],
      [resp |-> "nil", err |-> StatusErr("InvalidArgument")],
      [resp |-> "nil", err |-> PlainErr] }

(***************************************************************************)
(* Timeout middleware: configuration and pure helpers.  A duration is a    *)
(* number of ticks of the clock `now`, except the default of 10 s, which    *)
(* is 10000.                                                                *)
(***************************************************************************)
DefaultTimeout == 10000

\* The options given to Timeout: timeout is << >> without WithTimeout and
\* <<d>> with it, perMethod the map of WithPerMethodTimeout (empty without
\* it), callback whether WithTimeoutCallback was given.
TimeoutConfig(o) ==
    [Timeout   |-> IF o.timeout = << >> THEN DefaultTimeout ELSE o.timeout[1],
     PerMethod |-> o.perMethod,
     OnTimeout |-> o.callback]

\* Variant: the per-method table is not looked at
methodTimeout_DefaultOnly(config, method) == config.Timeout

\* The timeout of one call: the entry of PerMethod for info.FullMethod, else
\* the default
methodTimeout(config, method) ==
    IF method \in DOMAIN config.PerMethod THEN config.PerMethod[method]
    ELSE config.Timeout

\* status.Errorf(codes.DeadlineExceeded, "request timeout after %v", timeout)
TimeoutStatus == [resp |-> "nil", err |-> StatusErr("DeadlineExceeded")]

\* No call in progress
NoTimeoutCall ==
    [config |-> TimeoutConfig([timeout |-> << >>, perMethod |-> << >>, callback |-> FALSE]),
     method |-> "", timeout |-> 0, deadline |-> 0, pc |-> "idle",
     parentErr |-> "nil", ctxErr |-> "nil", goroutine |-> "none",
     resultChan |-> << >>, res |-> [resp |-> "nil", err |-> NilErr],
     ret |-> [resp |-> "nil", err |-> NilErr], onTimeout |-> << >>]

\* The middleware up to its select: the timeout of the method is chosen, the
\* context is derived with context.WithTimeout (done at once when the parent
\* is done), resultChan is made and the goroutine that runs the handler is
\* started.
StartTimeout(config, method, parentErr, t) ==
    [NoTimeoutCall EXCEPT
        !.config = config, !.method = method,
        !.timeout = methodTimeout(config, method),
        !.deadline = t + methodTimeout(config, method),
        !.pc = "start", !.parentErr = parentErr, !.ctxErr = parentErr,
        !.goroutine = "running"]

\* ctx.Done() of the derived context becomes ready with error e; a
\* middleware blocked in its select is woken on that case.
ctxDone(c, e) ==
    IF c.ctxErr # "nil" THEN c
    ELSE [c EXCEPT !.ctxErr = e,
                   !.pc = IF c.pc = "select" THEN "ctxdone" ELSE c.pc]

\* make(chan result, 1): the slots of resultChan
ChanCap == 1

\* Variant: resultChan has no buffer, a send without a receiver blocks
send_Unbuffered(c, res) ==
    IF c.pc = "select"
    THEN [c EXCEPT !.pc = "received", !.res = res, !.goroutine = "exited"]
    ELSE [c EXCEPT !.goroutine = "blocked"]

\* resultChan <- result{resp, err}: the value goes to the middleware when it
\* is blocked in its select, else into a free slot of the channel, and the
\* goroutine ends; with no receiver and no free slot the goroutine blocks.
send(c, res) ==
    IF c.pc = "select"
    THEN [c EXCEPT !.pc = "received", !.res = res, !.goroutine = "exited"]
    ELSE IF Len(c.resultChan) < ChanCap
    THEN [c EXCEPT !.resultChan = Append(@, res), !.goroutine = "exited"]
    ELSE [c EXCEPT !.goroutine = "blocked"]

\* Variant: the derived context is never released
cancel_Never(c) == c

\* defer cancel()
cancel(c) == [c EXCEPT !.ctxErr = IF @ = "nil" THEN "context canceled" ELSE @]

\* The timer of the retry interceptor's wait: the attempt it was started
\* after and the time it fires
NoTimer == [attempt |-> 0, at |-> 0]

(***************************************************************************)
(* Rate limiters: the token bucket (rate.Limiter of golang.org/x/time/rate, *)
(* which is not part of the sources: modelled from its contract in the      *)
(* specification, lazy refill min(b, tokens + elapsed * r) at admit time)   *)
(* and the middlewares built on it.  A second has TicksPerSecond ticks and   *)
(* tokens are counted in units of 1/TicksPerSecond token, so that a rate of *)
(* r tokens per second adds r units per tick.                               *)
(***************************************************************************)
TicksPerSecond == 4

\* rate.NewLimiter(rate.Limit(ratePerSec), burst): the bucket starts full
NewLimiter(ratePerSec, burst) ==
    [limit |-> ratePerSec, burst |-> burst, tokens |-> burst * TicksPerSecond, last |-> 0]

\* the tokens of the bucket at time t, refilled lazily and clamped to burst
advance(lim, t) ==
    LET filled == lim.tokens + (t - lim.last) * lim.limit
    IN IF filled > lim.burst * TicksPerSecond THEN lim.burst * TicksPerSecond ELSE filled

\* Variant: the refill is not clamped to burst
Allow_Unclamped(lim, t) ==
    LET tokens == lim.tokens + (t - lim.last) * lim.limit
    IN IF tokens >= TicksPerSecond
       THEN <<[lim EXCEPT !.tokens = tokens - TicksPerSecond, !.last = t], TRUE>>
       ELSE <<lim, FALSE>>

\* limiter.Allow() at time t: <<the bucket after the call, whether a token
\* was taken>>; it never waits
Allow(lim, t) ==
    LET tokens == advance(lim, t)
    IN IF tokens >= TicksPerSecond
       THEN <<[lim EXCEPT !.tokens = tokens - TicksPerSecond, !.last = t], TRUE>>
       ELSE <<lim, FALSE>>

\* status.Errorf(codes.ResourceExhausted, "rate limit exceeded")
RateLimitStatus == [resp |-> "nil", err |-> StatusErr("ResourceExhausted")]

\* Variant: the handler is called whether a token was taken or not
RateLimit_NoReject(lim, t, res) ==
    LET a == Allow(lim, t)
    IN [limiter |-> a[1], admitted |-> TRUE, ret |-> res]

\* The middleware returned by RateLimit, called at time t with a handler
\* that returns res: the bucket after the call, whether the handler was
\* invoked, and what the middleware returns
RateLimit(lim, t, res) ==
    LET a == Allow(lim, t)
    IN IF ~a[2]
       THEN [limiter |-> a[1], admitted |-> FALSE, ret |-> RateLimitStatus]
       ELSE [limiter |-> a[1], admitted |-> TRUE, ret |-> res]

\* No RateLimit middleware
NoRateLimit ==
    [limiter |-> NewLimiter(0, 0), log |-> << >>, handled |-> 0,
     ret |-> [resp |-> "nil", err |-> NilErr]]

\* NewPerClientRateLimiter(ratePerSec, burst): no limiter yet.  A bucket is
\* known by its number, its place in buckets in the order of creation;
\* owner[i] is the key bucket i was created for, limiters the map, readers
\* and writer the state of mu.
NewPerClientRateLimiter(ratePerSec, burst) ==
    [limiters |-> << >>, rate |-> ratePerSec, burst |-> burst,
     buckets |-> << >>, owner |-> << >>, readers |-> 0, writer |-> 0]

NoPerClient == NewPerClientRateLimiter(0, 0)

\* Variant: no second look at the map under the write lock
GetLimiterLocked_NoDoubleCheck(l, clientID) ==
    LET n == Len(l.buckets) + 1
    IN << [l EXCEPT !.buckets = Append(@, NewLimiter(l.rate, l.burst)),
                    !.owner = Append(@, clientID),
                    !.limiters = (clientID :> n) @@ @],
          n >>

\* GetLimiter under p.mu.Lock(): the limiter of the map when there is one
\* now, else a new limiter, stored in the map: <<the object after, the
\* limiter returned>>
GetLimiterLocked(l, clientID) ==
    IF clientID \in DOMAIN l.limiters
    THEN <<l, l.limiters[clientID]>>
    ELSE LET n == Len(l.buckets) + 1
         IN << [l EXCEPT !.buckets = Append(@, NewLimiter(l.rate, l.burst)),
                         !.owner = Append(@, clientID),
                         !.limiters = (clientID :> n) @@ @],
               n >>

\* A goroutine in RateLimitPerClient: where it is, the client id, the local
\* variables limiter and exists of GetLimiter, and what it last returned
NoProc ==
    [pc |-> "idle", clientID |-> "", limiter |-> 0, exists |-> FALSE,
     ret |-> "none"]

NoProcs == << >>

(***************************************************************************)
(* Adaptive rate limiter (middleware/ratelimit.go).  A float64 rate is the  *)
(* exact fraction <<numerator, denominator>> in lowest terms; a load        *)
(* factor is a number of hundredths.                                        *)
(***************************************************************************)
RECURSIVE GCD(_, _)
GCD(a, b) == IF b = 0 THEN a ELSE GCD(b, a % b)

Frac(n, d) == LET g == GCD(n, d) IN <<n \div g, d \div g>>

\* f * n/d
Times(f, n, d) == Frac(f[1] * n, f[2] * d)

\* f < g, f > g
Less(f, g) == f[1] * g[2] < g[1] * f[2]
Greater(f, g) == Less(g, f)

NoAdaptive == [baseRate |-> <<0, 1>>, currentRate |-> <<0, 1>>,
               limit |-> <<0, 1>>, burst |-> 0, adjusted |-> 0, load |-> 0,
               before |-> <<0, 1>>]

\* NewAdaptiveRateLimiter(baseRate, burst)
NewAdaptiveRateLimiter(baseRate, burst) ==
    [NoAdaptive EXCEPT !.baseRate = Frac(baseRate, 1),
                       !.currentRate = Frac(baseRate, 1),
                       !.limit = Frac(baseRate, 1),
                       !.burst = burst]

\* AdjustRate without the cap at twice the base rate
AdjustRate_NoCap(a, loadFactor) ==
    LET newRate ==
            IF loadFactor < 50 THEN Times(a.currentRate, 6, 5)
            ELSE IF loadFactor > 80
                 THEN LET r == Times(a.currentRate, 4, 5) IN
                      IF Less(r, Times(a.baseRate, 1, 2))
                      THEN Times(a.baseRate, 1, 2) ELSE r
            ELSE IF Greater(a.currentRate, a.baseRate)
                 THEN Times(a.currentRate, 19, 20)
            ELSE IF Less(a.currentRate, a.baseRate)
                 THEN Times(a.currentRate, 21, 20)
            ELSE a.currentRate
    IN  [a EXCEPT !.currentRate = newRate, !.limit = newRate]

\* a.AdjustRate(loadFactor): the new value of the limiter.  In the moderate
\* range a rate equal to the base rate returns before the assignment.
AdjustRate(a, loadFactor) ==
    LET lowLoad == loadFactor < 50
        highLoad == loadFactor > 80
        grown == Times(a.currentRate, 6, 5)
        shrunk == Times(a.currentRate, 4, 5)
        newRate ==
            IF lowLoad
            THEN IF Greater(grown, Times(a.baseRate, 2, 1))
                 THEN Times(a.baseRate, 2, 1) ELSE grown
            ELSE IF highLoad
            THEN IF Less(shrunk, Times(a.baseRate, 1, 2))
                 THEN Times(a.baseRate, 1, 2) ELSE shrunk
            ELSE IF Greater(a.currentRate, a.baseRate)
            THEN Times(a.currentRate, 19, 20)
            ELSE IF Less(a.currentRate, a.baseRate)
            THEN Times(a.currentRate, 21, 20)
            ELSE a.currentRate
    IN  IF ~lowLoad /\ ~highLoad /\ a.currentRate = a.baseRate
        THEN a
        ELSE [a EXCEPT !.currentRate = newRate, !.limit = newRate]

(***************************************************************************)
(* RateLimitWithWait (middleware/ratelimit.go).                             *)
(***************************************************************************)
\* limiter.Wait(ctx) at time t, up to the point where it blocks: the bucket
\* after the reservation of one token, how many ticks the token is away,
\* and the error of a Wait that fails at once ("nil" when none): ctxErr
\* when the context is already done, "burst" when one token exceeds the
\* burst.  The reserved token may leave the bucket negative.
Wait(lim, t, ctxErr) ==
    LET tokens == advance(lim, t) - TicksPerSecond
        delay == IF tokens >= 0 THEN 0
                 ELSE ((0 - tokens) + lim.limit - 1) \div lim.limit
    IN IF ctxErr # "nil"
       THEN [limiter |-> lim, delay |-> 0, err |-> ctxErr]
       ELSE IF lim.burst < 1
       THEN [limiter |-> lim, delay |-> 0, err |-> "burst"]
       ELSE [limiter |-> [lim EXCEPT !.tokens = tokens, !.last = t],
             delay |-> delay, err |-> "nil"]

\* the reservation of a Wait given up at time t: its token goes back
CancelAt(lim, t) ==
    LET tokens == advance(lim, t) + TicksPerSecond
    IN [lim EXCEPT !.tokens = IF tokens > lim.burst * TicksPerSecond
                              THEN lim.burst * TicksPerSecond ELSE tokens,
                   !.last = t]

\* status.Errorf(codes.ResourceExhausted, "rate limit wait failed: %v", err)
WaitFailedStatus == [resp |-> "nil", err |-> StatusErr("ResourceExhausted")]

\* No call of the RateLimitWithWait middleware: served counts the calls,
\* handled the invocations of the handler; outcome tells how the last call
\* ended and ret what it returned
NoWait ==
    [limiter |-> NewLimiter(0, 0), pc |-> "idle", wakeAt |-> 0,
     ctxErr |-> "nil", served |-> 0, handled |-> 0, invoked |-> FALSE,
     outcome |-> "none", ret |-> [resp |-> "nil", err |-> NilErr]]

(***************************************************************************)
(* Cache: MemoryBackend and the Cache middleware.                           *)
(***************************************************************************)
\* The clock of the cache specifications starts at 1: 0 is the zero
\* time.Time, before every instant of the clock.
ZeroTime == 0

\* a map without key k; the empty map is << >>
Remove(f, k) ==
    IF DOMAIN f \subseteq {k} THEN << >>
    ELSE [x \in DOMAIN f \ {k} |-> f[x]]

\* a map with key k set to v
Put(f, k, v) ==
    IF k \in DOMAIN f THEN [f EXCEPT ![k] = v] ELSE (k :> v) @@ f

\* len(m.data)
Len_data(m) == Cardinality(DOMAIN m.data)

\* cache.NewMemoryBackend(&MemoryConfig{MaxSize: maxSize}).  An Entry is
\* [Value, ExpiresAt, AccessedAt]; CreatedAt, which nothing reads, is left
\* out.  HitRate is the fraction <<hits, total>> last computed; readers and
\* writer are the state of mu.
NewMemoryBackend(maxSize) ==
    [data |-> << >>, maxSize |-> maxSize,
     stats |-> [Hits |-> 0, Misses |-> 0, Sets |-> 0, Deletes |-> 0,
                Evictions |-> 0, Size |-> 0, MaxSize |-> maxSize,
                HitRate |-> <<0, 1>>],
     readers |-> 0, writer |-> 0]

NoBackend == NewMemoryBackend(0)

\* e.IsExpired() at time t
IsExpired(e, t) == IF e.ExpiresAt = ZeroTime THEN FALSE ELSE t > e.ExpiresAt

\* m.updateHitRate() on the statistics st
updateHitRate(st) ==
    LET total == st.Hits + st.Misses
    IN IF total > 0 THEN [st EXCEPT !.HitRate = <<st.Hits, total>>] ELSE st

\* Variant of Get: an entry found is returned whether it expired or not
Get_IgnoreExpiry(m, key, t) ==
    IF key \notin DOMAIN m.data
    THEN [backend |-> [m EXCEPT !.stats = updateHitRate([@ EXCEPT !.Misses = @ + 1])],
          value |-> "nil", found |-> FALSE]
    ELSE [backend |-> [m EXCEPT !.data[key].AccessedAt = t,
                               !.stats = updateHitRate([@ EXCEPT !.Hits = @ + 1])],
          value |-> m.data[key].Value, found |-> TRUE]

\* m.Get(ctx, key) at time t, run alone: the backend after the call, the
\* value and found
Get(m, key, t) ==
    IF key \notin DOMAIN m.data
    THEN [backend |-> [m EXCEPT !.stats = updateHitRate([@ EXCEPT !.Misses = @ + 1])],
          value |-> "nil", found |-> FALSE]
    ELSE IF IsExpired(m.data[key], t)
    THEN [backend |-> [m EXCEPT !.stats = updateHitRate([@ EXCEPT !.Misses = @ + 1])],
          value |-> "nil", found |-> FALSE]
    ELSE [backend |-> [m EXCEPT !.data[key].AccessedAt = t,
                               !.stats = updateHitRate([@ EXCEPT !.Hits = @ + 1])],
          value |-> m.data[key].Value, found |-> TRUE]

\* the orders in which `for key, entry := range m.data` can visit the map
RangeOrders(data) ==
    LET n == Cardinality(DOMAIN data)
    IN { o \in [1..n -> DOMAIN data] : \A i, j \in 1..n : o[i] = o[j] => i = j }

\* the loop of evictOldest over the keys order[i..]: <<oldestKey, oldestTime>>
RECURSIVE scanOldest(_, _, _, _, _)
scanOldest(data, order, i, oldestKey, oldestTime) ==
    IF i > Len(order) THEN <<oldestKey, oldestTime>>
    ELSE IF oldestKey = "" \/ data[order[i]].AccessedAt < oldestTime
    THEN scanOldest(data, order, i + 1, order[i], data[order[i]].AccessedAt)
    ELSE scanOldest(data, order, i + 1, oldestKey, oldestTime)

\* m.evictOldest() when the map is visited in the given order
evictOldest(m, order) ==
    LET oldestKey == scanOldest(m.data, order, 1, "", ZeroTime)[1]
    IN IF oldestKey # ""
       THEN [m EXCEPT !.data = Remove(m.data, oldestKey),
                      !.stats.Evictions = @ + 1]
       ELSE m

\* Variant of Set: nothing is evicted
Set_NoEvict(m, key, value, ttl, t, order) ==
    LET expiresAt == IF ttl > 0 THEN t + ttl ELSE ZeroTime
        data == Put(m.data, key,
                    [Value |-> value, ExpiresAt |-> expiresAt, AccessedAt |-> t])
    IN [m EXCEPT !.data = data,
                 !.stats.Sets = @ + 1,
                 !.stats.Size = Cardinality(DOMAIN data)]

\* m.Set(ctx, key, value, ttl) at time t; order is the order in which
\* evictOldest, if called, visits the map
Set(m, key, value, ttl, t, order) ==
    LET e == IF m.maxSize > 0 /\ Len_data(m) >= m.maxSize
             THEN evictOldest(m, order) ELSE m
        expiresAt == IF ttl > 0 THEN t + ttl ELSE ZeroTime
        data == Put(e.data, key,
                    [Value |-> value, ExpiresAt |-> expiresAt, AccessedAt |-> t])
    IN [e EXCEPT !.data = data,
                 !.stats.Sets = @ + 1,
                 !.stats.Size = Cardinality(DOMAIN data)]

\* Variant of Delete: the removal is counted and the entry stays
Delete_CountOnly(m, key) ==
    IF key \in DOMAIN m.data
    THEN [m EXCEPT !.stats.Deletes = @ + 1]
    ELSE m

\* m.Delete(ctx, key)
Delete(m, key) ==
    IF key \in DOMAIN m.data
    THEN LET data == Remove(m.data, key)
         IN [m EXCEPT !.data = data,
                      !.stats.Deletes = @ + 1,
                      !.stats.Size = Cardinality(DOMAIN data)]
    ELSE m

\* m.Clear(ctx)
Clear(m) == [m EXCEPT !.data = << >>, !.stats.Size = 0]

\* m.Stats()
Stats(m) == [m.stats EXCEPT !.Size = Len_data(m)]

\* m.cleanup() at time t, the step of the sweeper goroutine
RECURSIVE cleanupFrom(_, _, _)
cleanupFrom(m, keys, t) ==
    IF keys = {} THEN m
    ELSE LET key == CHOOSE k \in keys : TRUE
             next == IF m.data[key].ExpiresAt # ZeroTime /\ t > m.data[key].ExpiresAt
                     THEN [m EXCEPT !.data = Remove(m.data, key),
                                    !.stats.Evictions = @ + 1]
                     ELSE m
         IN cleanupFrom(next, keys \ {key}, t)

cleanup(m, t) ==
    LET c == cleanupFrom(m, DOMAIN m.data, t)
    IN [c EXCEPT !.stats.Size = Len_data(c)]
\* Responses are typed values [type, val]; errors carry their message
NilResp == [type |-> "nil", val |-> ""]
NoErr == [kind |-> "nil", code |-> "OK", msg |-> ""]

\* json.Marshal of a value held in an interface{}: a struct becomes a JSON
\* object, a string a JSON string, nil is left out (omitempty)
MarshalValue(v) ==
    IF v.type = "*mockResponse" THEN [json |-> "object", text |-> v.val]
    ELSE IF v.type = "string" THEN [json |-> "string", text |-> v.val]
    ELSE [json |-> "absent", text |-> ""]

\* json.Unmarshal into an interface{}: a JSON object becomes a
\* map[string]interface{}, a JSON string a string, nothing stays nil
UnmarshalValue(j) ==
    IF j.json = "object" THEN [type |-> "map[string]interface {}", val |-> j.text]
    ELSE IF j.json = "string" THEN [type |-> "string", val |-> j.text]
    ELSE NilResp

\* status.Convert(err) as a cachedError: the code and message of a status
\* error, Unknown and err.Error() for any other error
Convert(err) ==
    IF err.kind = "status" THEN [Code |-> err.code, Message |-> err.msg]
    ELSE [Code |-> "Unknown", Message |-> err.msg]

\* json.Marshal(cachedResponse{Response: resp, Error: ...}): the document;
\* Error is << >> for a nil pointer
Marshal(resp, err) ==
    [response |-> MarshalValue(resp),
     error |-> IF err.kind # "nil" THEN <<Convert(err)>> ELSE << >>]

\* json.Unmarshal(cached, &cachedResp)
Unmarshal(doc) ==
    [Response |-> UnmarshalValue(doc.response), Error |-> doc.error]

\* DefaultKeyGenerator.GenerateKey(method, req): the method, ":" and the
\* SHA-256 of the request's JSON.  A request is [ID |-> n]; the digest is
\* written sha256(...) around the text hashed, distinct texts having
\* distinct digests.
GenerateKey(method, req) ==
    method \o ":" \o "sha256({\"ID\":" \o ToString(req.ID) \o "})"

\* The configuration Cache(opts...) starts from
DefaultCacheConfig ==
    [TTL |-> 2, MethodTTLs |-> << >>, SkipMethods |-> {}, OnlyMethods |-> {},
     CacheErrors |-> FALSE, SkipAuth |-> TRUE]

\* Variant of shouldCache: every method is cached
shouldCache_Always(method, config) == TRUE

\* shouldCache(method, config)
shouldCache(method, config) ==
    IF config.OnlyMethods # {}
    THEN method \in config.OnlyMethods
    ELSE method \notin config.SkipMethods

\* Variant of the middleware: an error is stored whatever CacheErrors says
Cache_ErrorsAlways(config, m, user, method, req, res, t, order) ==
    LET cacheKey == GenerateKey(method, req)
        g == Get(m, cacheKey, t)
        cachedResp == Unmarshal(g.value)
        ttl == IF method \in DOMAIN config.MethodTTLs
               THEN config.MethodTTLs[method] ELSE config.TTL
    IN IF ~shouldCache(method, config) \/ (config.SkipAuth /\ user # << >>)
       THEN [backend |-> m, ret |-> res, invoked |-> TRUE, read |-> FALSE,
             written |-> FALSE, hit |-> FALSE, key |-> ""]
       ELSE IF g.found
       THEN [backend |-> g.backend,
             ret |-> IF cachedResp.Error # << >>
                     THEN [resp |-> NilResp,
                           err |-> [kind |-> "status",
                                    code |-> cachedResp.Error[1].Code,
                                    msg |-> cachedResp.Error[1].Message]]
                     ELSE [resp |-> cachedResp.Response, err |-> NoErr],
             invoked |-> FALSE, read |-> TRUE, written |-> FALSE,
             hit |-> TRUE, key |-> cacheKey]
       ELSE [backend |-> Set(g.backend, cacheKey, Marshal(res.resp, res.err),
                             ttl, t, order),
             ret |-> res, invoked |-> TRUE, read |-> TRUE, written |-> TRUE,
             hit |-> FALSE, key |-> cacheKey]

\* The middleware returned by Cache(opts...), called at time t by a caller
\* whose context holds the user id `user` (<< >> when it holds none), for
\* method and req, with a handler that returns res; m is the backend and
\* order the order in which an eviction visits the map.  The result: the
\* backend after the call, what the middleware returns, whether the handler
\* was invoked, whether the backend was read and written, whether the call
\* was a hit, and the cache key.
Cache(config, m, user, method, req, res, t, order) ==
    LET cacheKey == GenerateKey(method, req)
        g == Get(m, cacheKey, t)
        cachedResp == Unmarshal(g.value)
        shouldCacheResp == ~(res.err.kind # "nil" /\ ~config.CacheErrors)
        ttl == IF method \in DOMAIN config.MethodTTLs
               THEN config.MethodTTLs[method] ELSE config.TTL
    IN IF ~shouldCache(method, config)
       THEN [backend |-> m, ret |-> res, invoked |-> TRUE, read |-> FALSE,
             written |-> FALSE, hit |-> FALSE, key |-> ""]
       ELSE IF config.SkipAuth /\ user # << >>
       THEN [backend |-> m, ret |-> res, invoked |-> TRUE, read |-> FALSE,
             written |-> FALSE, hit |-> FALSE, key |-> ""]
       ELSE IF g.found
       THEN [backend |-> g.backend,
             ret |-> IF cachedResp.Error # << >>
                     THEN [resp |-> NilResp,
                           err |-> [kind |-> "status",
                                    code |-> cachedResp.Error[1].Code,
                                    msg |-> cachedResp.Error[1].Message]]
                     ELSE [resp |-> cachedResp.Response, err |-> NoErr],
             invoked |-> FALSE, read |-> TRUE, written |-> FALSE,
             hit |-> TRUE, key |-> cacheKey]
       ELSE IF shouldCacheResp
       THEN [backend |-> Set(g.backend, cacheKey, Marshal(res.resp, res.err),
                             ttl, t, order),
             ret |-> res, invoked |-> TRUE, read |-> TRUE, written |-> TRUE,
             hit |-> FALSE, key |-> cacheKey]
       ELSE [backend |-> g.backend, ret |-> res, invoked |-> TRUE,
             read |-> TRUE, written |-> FALSE, hit |-> FALSE, key |-> cacheKey]

\* The middleware from its entry to the call of the handler or the return of
\* a cached response: hit tells which, key is the cache key ("" when the
\* call bypasses the cache), ret what a hit returns.
CacheBefore(config, m, user, method, req, t) ==
    LET cacheKey == GenerateKey(method, req)
        g == Get(m, cacheKey, t)
        cachedResp == Unmarshal(g.value)
    IN IF ~shouldCache(method, config) \/ (config.SkipAuth /\ user # << >>)
       THEN [backend |-> m, hit |-> FALSE, key |-> "",
             ret |-> [resp |-> NilResp, err |-> NoErr]]
       ELSE IF g.found
       THEN [backend |-> g.backend, hit |-> TRUE, key |-> cacheKey,
             ret |-> IF cachedResp.Error # << >>
                     THEN [resp |-> NilResp,
                           err |-> [kind |-> "status",
                                    code |-> cachedResp.Error[1].Code,
                                    msg |-> cachedResp.Error[1].Message]]
                     ELSE [resp |-> cachedResp.Response, err |-> NoErr]]
       ELSE [backend |-> g.backend, hit |-> FALSE, key |-> cacheKey,
             ret |-> [resp |-> NilResp, err |-> NoErr]]

\* Variant: the response of the handler is never stored
CacheAfter_NoStore(config, m, method, cacheKey, res, t, order) == m

\* The middleware after the handler returned res: the backend after the
\* response was stored, or not
CacheAfter(config, m, method, cacheKey, res, t, order) ==
    LET ttl == IF method \in DOMAIN config.MethodTTLs
               THEN config.MethodTTLs[method] ELSE config.TTL
    IN IF cacheKey = "" \/ (res.err.kind # "nil" /\ ~config.CacheErrors)
       THEN m
       ELSE Set(m, cacheKey, Marshal(res.resp, res.err), ttl, t, order)

\* A goroutine that is not inside the Cache middleware
NoFlight ==
    [pc |-> "idle", method |-> "", key |-> "",
     ret |-> [resp |-> NilResp, err |-> NoErr]]

\* No call of the Cache middleware yet: served counts the calls, handled
\* the invocations of the handler, last is the call just made (forgotten
\* as soon as anything else happens)
NoCacheCall ==
    [user |-> << >>, method |-> "", req |-> [ID |-> 0], key |-> "",
     res |-> [resp |-> NilResp, err |-> NoErr],
     ret |-> [resp |-> NilResp, err |-> NoErr],
     invoked |-> FALSE, read |-> FALSE, written |-> FALSE, hit |-> FALSE,
     expired |-> FALSE, at |-> 0]

NoCache ==
    [config |-> DefaultCacheConfig, served |-> 0, handled |-> 0,
     last |-> NoCacheCall]
\* The users of a MemoryBackend: the goroutines inside it (procs), the
\* calls made so far (ops, gets, sets), the keys Delete removed (removed),
\* for every key what was last stored under it and is neither deleted,
\* cleared nor evicted (stored), and the last call with what it returned.
NoLastOp == [op |-> "none", key |-> "", value |-> "nil", found |-> FALSE,
             hits |-> 0]

NoGoroutines ==
    [procs |-> << >>, ops |-> 0, gets |-> 0, sets |-> 0, removed |-> 0,
     stored |-> << >>, last |-> NoLastOp]

\* stored, without the keys that left the map data
Surviving(stored, data) ==
    IF DOMAIN stored \subseteq DOMAIN data THEN stored
    ELSE IF DOMAIN stored \cap DOMAIN data = {} THEN << >>
    ELSE [k \in DOMAIN stored \cap DOMAIN data |-> stored[k]]

(***************************************************************************)
(* Chain (guardian.go).                                                     *)
(***************************************************************************)
\* A handler is the list of the middlewares it runs before the final
\* handler: << >> is the final handler itself, and the closure
\*   func(ctx, req) { return middleware(ctx, req, info, next) }
\* is <<middleware>> \o next.
Wrapped(middleware, next) == <<middleware>> \o next

\* Variant of the loop: the middlewares are wrapped first to last
RECURSIVE BuildFrom_Forward(_, _, _)
BuildFrom_Forward(middlewares, i, currentHandler) ==
    IF i < 0 THEN currentHandler
    ELSE BuildFrom_Forward(middlewares, i - 1,
             Wrapped(middlewares[Len(middlewares) - i], currentHandler))

\* The loop of Chain.UnaryInterceptor and of ChainUnaryServer,
\*   for i := len(middlewares) - 1; i >= 0; i-- { ... }
\* from index i (counted from 0) down, currentHandler being the handler
\* built so far
RECURSIVE BuildFrom(_, _, _)
BuildFrom(middlewares, i, currentHandler) ==
    IF i < 0 THEN currentHandler
    ELSE BuildFrom(middlewares, i - 1, Wrapped(middlewares[i + 1], currentHandler))

\* No call of an interceptor: cur is the handler about to be called, active
\* the middlewares that called next and wait for it, trace what happened,
\* ctx and req what the current handler is called with, args what the final
\* handler received
NoChainCall ==
    [middlewares |-> << >>, pc |-> "idle", cur |-> << >>, active |-> << >>,
     trace |-> << >>, ctx |-> << >>, req |-> "", args |-> << >>,
     res |-> [resp |-> "nil", err |-> NilErr],
     ret |-> [resp |-> "nil", err |-> NilErr],
     streamMiddlewares |-> << >>, kind |-> "", obtained |-> << >>,
     got |-> FALSE, ops |-> 0]

\* NewChain(middlewares...): only the unary list is filled.  The fields
\* kind, obtained, got and ops are not the Chain's: kind tells which
\* interceptor a call went through, obtained is c.middlewares as it was when
\* UnaryInterceptor or StreamInterceptor was called (got), ops counts the
\* Append and Prepend calls.
NewChain(middlewares) == [NoChainCall EXCEPT !.middlewares = middlewares]

\* c.Append(middlewares...): c.middlewares = append(c.middlewares, middlewares...)
ChainAppend(c, middlewares) ==
    [c EXCEPT !.middlewares = c.middlewares \o middlewares]

\* c.Prepend(middlewares...): c.middlewares = append(middlewares, c.middlewares...)
ChainPrepend(c, middlewares) ==
    [c EXCEPT !.middlewares = middlewares \o c.middlewares]

\* The handler the interceptor of c.UnaryInterceptor() builds when it is
\* called: the loop reads c.middlewares then.
UnaryHandler(c) == BuildFrom(c.middlewares, Len(c.middlewares) - 1, << >>)

\* Variant: the stream interceptor wraps the unary middlewares
StreamHandler_Unary(c) == BuildFrom(c.middlewares, Len(c.middlewares) - 1, << >>)

\* The handler the interceptor of c.StreamInterceptor() builds when it is
\* called: the loop reads c.streamMiddlewares.
StreamHandler(c) ==
    BuildFrom(c.streamMiddlewares, Len(c.streamMiddlewares) - 1, << >>)

(***************************************************************************)
(* Options and constructors.  No constructor of the library returns an     *)
(* error: NewRetry returns *Retry, NewCircuitBreaker *CircuitBreaker and     *)
(* Cache the middleware function.                                           *)
(***************************************************************************)
\* WithMaxAttempts(n) applied to the Retry r
WithMaxAttempts(r, n) == IF n > 0 THEN [r EXCEPT !.maxAttempts = n] ELSE r

\* WithInitialBackoff(d)
WithInitialBackoff(r, d) == IF d > 0 THEN [r EXCEPT !.initialBackoff = d] ELSE r

\* WithMaxBackoff(d)
WithMaxBackoff(r, d) == IF d > 0 THEN [r EXCEPT !.maxBackoff = d] ELSE r

\* WithBackoffMultiplier(m), m = num/den with den > 0: m > 1.0
WithBackoffMultiplier(r, num, den) ==
    IF num > den THEN [r EXCEPT !.mulNum = num, !.mulDen = den] ELSE r

\* WithFailureThreshold(threshold), threshold = num/den with den > 0:
\* threshold > 0 && threshold <= 1.0
WithFailureThreshold(c, num, den) ==
    IF num > 0 /\ num <= den THEN [c EXCEPT !.ftNum = num, !.ftDen = den] ELSE c

\* WithTTL(ttl) applied to the CacheConfig c
WithTTL(c, ttl) == [c EXCEPT !.TTL = ttl]

\* Nothing constructed yet.  kind is the constructor called, given its
\* option values, built the object it returned, err the error it reported:
\* "nil" always, the constructors having no error result.
NoConstruction == [kind |-> "", given |-> << >>, built |-> << >>, err |-> "nil"]

(***************************************************************************)
(* Circuit breaker: the state machine.                                     *)
(***************************************************************************)
Gens == 0..MaxGen

\* The breaker forgets the callbacks of earlier calls: only those of the call
\* in progress are observed.
Fresh(c) == [c EXCEPT !.onStateChange = << >>]

InFlightTotal == LET S[g \in -1..MaxGen] == IF g < 0 THEN 0 ELSE S[g - 1] + inflight[g]
                 IN S[MaxGen]

\* Configurations <<maxRequests, interval, timeout, ftNum, ftDen,
\* successThreshold>>: the defaults of NewCircuitBreaker and the options of
\* TestCircuitBreakerStateMachine, and WithMaxRequests(0); durations are a
\* few ticks.
BreakerConfigs ==
    { <<1, 1, 2, 3, 5, 1>>, <<2, 1, 2, 1, 2, 2>>, <<0, 1, 2, 1, 2, 1>> }

Init ==
    /\ arl = NoAdaptive
    /\ wt = NoWait
    /\ mb = NoBackend
    /\ cmw = NoCache
    /\ gor = NoGoroutines
    /\ chn = NoChainCall
    /\ cons = NoConstruction
    /\ now = 0
    /\ \E k \in BreakerConfigs :
          cb = NewCircuitBreaker(k[1], k[2], k[3], k[4], k[5], k[6], 0)
    /\ inflight = [g \in Gens |-> 0]
    /\ last = NoReturn
    /\ calls = 0
    /\ tm = NoTimeoutCall
    /\ timer = NoTimer
    /\ rl = NoRateLimit
    /\ pcl = NoPerClient
    /\ procs = NoProcs
    /\ retry = NewRetry(DefaultOptions)
    /\ call = NoCall

\* time passes
Tick ==
    /\ now < MaxTime
    /\ now' = now + 1
    /\ last' = [NoReturn EXCEPT !.op = "tick"]
    /\ UNCHANGED <<cb, inflight, calls>>
    /\ UNCHANGED nonBreakerVars

\* CircuitBreakerMiddleware up to the call of the handler: beforeRequest, and
\* on an error the Unavailable status is returned without calling the handler.
Admit ==
    LET r == beforeRequest(Fresh(cb), now) IN
    /\ r[1].generation <= MaxGen
    /\ r[3] = "nil" => (InFlightTotal < MaxInFlight /\ calls < MaxCalls)
    /\ cb' = r[1]
    /\ inflight' = IF r[3] = "nil" THEN [inflight EXCEPT ![r[2]] = @ + 1] ELSE inflight
    /\ last' = [NoReturn EXCEPT !.op = "admit", !.gen = r[2], !.err = r[3],
                   !.status = IF r[3] = "nil" THEN NoStatus ELSE RejectStatus(r[3])]
    /\ calls' = IF r[3] = "nil" THEN calls + 1 ELSE calls
    /\ UNCHANGED now
    /\ UNCHANGED nonBreakerVars

\* The handler of a request admitted under generation g returns err and the
\* middleware records it with afterRequest(g, err).
Complete(g, err) ==
    LET c == afterRequest(Fresh(cb), g, err, now) IN
    /\ inflight[g] > 0
    /\ c.generation <= MaxGen
    /\ cb' = c
    /\ inflight' = [inflight EXCEPT ![g] = @ - 1]
    /\ last' = [NoReturn EXCEPT !.op = "complete", !.gen = g,
                   !.failure = defaultIsFailure(err)]
    /\ UNCHANGED <<now, calls>>
    /\ UNCHANGED nonBreakerVars

\* cb.Reset()
DoReset ==
    LET c == Reset(Fresh(cb), now) IN
    /\ c.generation <= MaxGen
    /\ cb' = c
    /\ last' = [NoReturn EXCEPT !.op = "reset"]
    /\ UNCHANGED <<now, inflight, calls>>
    /\ UNCHANGED nonBreakerVars

Next ==
    \/ Tick
    \/ Admit
    \/ \E g \in Gens, err \in HandlerErrors : Complete(g, err)
    \/ DoReset

Spec == Init /\ [][Next]_vars

(***************************************************************************)
(* Retry engine: one call through Retry.UnaryServerInterceptor.            *)
(***************************************************************************)
MaxTry == 3

RetryOptions ==
    [maxAttempts : 0..MaxTry, initialBackoff : {2}, maxBackoff : {3},
     mulNum : {2, 3}, mulDen : {1, 2}, jitter : BOOLEAN,
     codes : {<< >>, <<{"Unavailable"}>>}]

InitRetry ==
    /\ arl = NoAdaptive
    /\ wt = NoWait
    /\ mb = NoBackend
    /\ cmw = NoCache
    /\ gor = NoGoroutines
    /\ chn = NoChainCall
    /\ cons = NoConstruction
    /\ now = 0
    /\ cb = NewCircuitBreaker(1, 1, 2, 3, 5, 1, 0)
    /\ inflight = [g \in Gens |-> 0]
    /\ last = NoReturn
    /\ calls = 0
    /\ tm = NoTimeoutCall
    /\ timer = NoTimer
    /\ rl = NoRateLimit
    /\ pcl = NoPerClient
    /\ procs = NoProcs
    /\ \E o \in RetryOptions : retry = NewRetry(o)
    /\ call = [NoCall EXCEPT !.pc = "loop", !.attempt = 1]

\* return resp, err
Return(resp, err) == [call EXCEPT !.pc = "done", !.ret = [resp |-> resp, err |-> err]]

LastResult == call.trace[Len(call.trace)]

\* Variant: the loop does not look at ctx.Err() before an attempt
LoopHead_NoCtxCheck ==
    /\ call.pc = "loop"
    /\ call' = IF call.attempt > retry.maxAttempts
               THEN IF call.trace = << >> THEN Return("nil", NilErr)
                    ELSE Return(LastResult.resp, LastResult.err)
               ELSE [call EXCEPT !.pc = "handler"]
    /\ UNCHANGED retry
    /\ UNCHANGED nonRetryVars

\* The head of the loop: the loop condition, then the check of ctx.Err(),
\* then the handler is called.
LoopHead ==
    /\ call.pc = "loop"
    /\ call' = IF call.attempt > retry.maxAttempts
               THEN IF call.trace = << >> THEN Return("nil", NilErr)
                    ELSE Return(LastResult.resp, LastResult.err)
               ELSE IF call.ctxErr # "nil" THEN Return("nil", CtxError(call.ctxErr))
               ELSE [call EXCEPT !.pc = "handler"]
    /\ UNCHANGED retry
    /\ UNCHANGED nonRetryVars

\* The handler returns res; the interceptor returns it, or gives up after the
\* last attempt, or computes the backoff, calls onRetry and starts to wait.
HandlerReturns(res) ==
    /\ call.pc = "handler"
    /\ call' \in afterAttempt(retry, [call EXCEPT !.trace = Append(@, res)], res)
    /\ UNCHANGED retry
    /\ UNCHANGED nonRetryVars

\* select: time.After(backoff) fires, the loop goes on with the next attempt
BackoffElapsed ==
    /\ call.pc = "wait"
    /\ call' = [call EXCEPT !.pc = "loop", !.attempt = @ + 1,
                            !.waits = Append(@, call.backoff)]
    /\ UNCHANGED retry
    /\ UNCHANGED nonRetryVars

\* select: ctx.Done() is ready
WaitCancelled ==
    /\ call.pc = "wait"
    /\ call.ctxErr # "nil"
    /\ call' = Return("nil", CtxError(call.ctxErr))
    /\ UNCHANGED retry
    /\ UNCHANGED nonRetryVars

\* The caller cancels the context, or its deadline passes
Cancel(e) ==
    /\ call.pc \in {"loop", "handler", "wait"}
    /\ call.ctxErr = "nil"
    /\ call' = [call EXCEPT !.ctxErr = e]
    /\ UNCHANGED retry
    /\ UNCHANGED nonRetryVars

NextRetry ==
    \/ LoopHead
    \/ \E res \in HandlerResults : HandlerReturns(res)
    \/ BackoffElapsed
    \/ WaitCancelled
    \/ \E e \in {"context canceled", "context deadline exceeded"} : Cancel(e)

SpecRetry == InitRetry /\ [][NextRetry]_vars

(***************************************************************************)
(* calculateBackoff called for attempt 1, 2, ... of a policy without       *)
(* jitter, as TestRetry_ExponentialBackoff and TestRetry_MaxBackoffCap do;  *)
(* call.onRetry holds the pairs <<attempt, backoff>>.                       *)
(***************************************************************************)
MaxAttempt == 5

BackoffOptions ==
    { [DefaultOptions EXCEPT !.initialBackoff = i, !.maxBackoff = m,
                             !.mulNum = k[1], !.mulDen = k[2], !.jitter = FALSE] :
        i \in {1, 2, 3, 5}, m \in {3, 20}, k \in {<<2, 1>>, <<3, 2>>, <<5, 4>>} }

InitBackoff ==
    /\ arl = NoAdaptive
    /\ wt = NoWait
    /\ mb = NoBackend
    /\ cmw = NoCache
    /\ gor = NoGoroutines
    /\ chn = NoChainCall
    /\ cons = NoConstruction
    /\ now = 0
    /\ cb = NewCircuitBreaker(1, 1, 2, 3, 5, 1, 0)
    /\ inflight = [g \in Gens |-> 0]
    /\ last = NoReturn
    /\ calls = 0
    /\ tm = NoTimeoutCall
    /\ timer = NoTimer
    /\ rl = NoRateLimit
    /\ pcl = NoPerClient
    /\ procs = NoProcs
    /\ \E o \in BackoffOptions : retry = NewRetry(o)
    /\ call = [NoCall EXCEPT !.pc = "backoff", !.attempt = 1]

\* backoff := r.calculateBackoff(attempt), for the next attempt number
ComputeBackoff ==
    /\ call.pc = "backoff"
    /\ call.attempt <= MaxAttempt
    /\ \E b \in calculateBackoff(retry, call.attempt) :
          call' = [call EXCEPT !.attempt = @ + 1, !.backoff = b,
                               !.onRetry = Append(@, <<call.attempt, b>>)]
    /\ UNCHANGED retry
    /\ UNCHANGED nonRetryVars

NextBackoff == ComputeBackoff

SpecBackoff == InitBackoff /\ [][NextBackoff]_vars

(***************************************************************************)
(* Timeout middleware: one call.  Statements take no time; time passes     *)
(* while the middleware is blocked in its select, while a handler runs and  *)
(* while the retry interceptor waits.                                       *)
(***************************************************************************)
Methods == {"/test.Service/FastMethod", "/test.Service/SlowMethod", "/test.Service/UnknownMethod"}

\* Timeout(), TimeoutSimple(d) with and without a callback, and
\* TimeoutPerMethod(d, m) of TestTimeout_PerMethod, durations a few ticks
TimeoutOptions ==
    { [timeout |-> << >>, perMethod |-> << >>, callback |-> FALSE],
      [timeout |-> <<2>>, perMethod |-> << >>, callback |-> FALSE],
      [timeout |-> <<2>>, perMethod |-> << >>, callback |-> TRUE],
      [timeout |-> <<2>>, callback |-> TRUE,
       perMethod |-> [m \in {"/test.Service/FastMethod", "/test.Service/SlowMethod"} |->
                        IF m = "/test.Service/FastMethod" THEN 1 ELSE 3]] }

\* What the handler given to Timeout can return: a response, an error, or
\* the error of its context once that is done
TimeoutHandlerResults ==
    { [resp |-> "success", err |-> NilErr],
      [resp |-> "nil", err |-> StatusErr("Unavailable")] }
    \cup (IF tm.ctxErr = "nil" THEN {} ELSE {[resp |-> "nil", err |-> CtxError(tm.ctxErr)]})

InitTimeout ==
    /\ arl = NoAdaptive
    /\ wt = NoWait
    /\ mb = NoBackend
    /\ cmw = NoCache
    /\ gor = NoGoroutines
    /\ chn = NoChainCall
    /\ cons = NoConstruction
    /\ now = 0
    /\ cb = NewCircuitBreaker(1, 1, 2, 3, 5, 1, 0)
    /\ inflight = [g \in Gens |-> 0]
    /\ last = NoReturn
    /\ calls = 0
    /\ retry = NewRetry(DefaultOptions)
    /\ call = NoCall
    /\ \E o \in TimeoutOptions, m \in Methods, e \in {"nil", "context canceled"} :
          tm = StartTimeout(TimeoutConfig(o), m, e, 0)
    /\ timer = NoTimer
    /\ rl = NoRateLimit
    /\ pcl = NoPerClient
    /\ procs = NoProcs

\* Variant: the handler is given a context that is never done
ctxSeen_Never(c, e) == c

\* the context given to the handler is the derived one: a retry call that
\* runs as the handler sees its error
ctxSeen(c, e) ==
    IF c.pc \in {"idle", "done"} \/ c.ctxErr # "nil" THEN c ELSE [c EXCEPT !.ctxErr = e]

\* The middleware reaches its select: it takes a case that is ready, either
\* one when both are, and blocks when none is.
EnterSelect ==
    /\ tm.pc = "start"
    /\ \/ /\ tm.resultChan # << >>
          /\ tm' = [tm EXCEPT !.pc = "received", !.res = Head(tm.resultChan),
                              !.resultChan = << >>]
       \/ /\ tm.ctxErr # "nil"
          /\ tm' = [tm EXCEPT !.pc = "ctxdone"]
       \/ /\ tm.resultChan = << >>
          /\ tm.ctxErr = "nil"
          /\ tm' = [tm EXCEPT !.pc = "select"]
    /\ UNCHANGED <<now, timer, retryVars>>
    /\ UNCHANGED nonTimeoutVars

\* case res := <-resultChan: return res.resp, res.err (and the deferred cancel)
OnResult ==
    /\ tm.pc = "received"
    /\ tm' = [cancel(tm) EXCEPT !.pc = "done", !.ret = tm.res]
    /\ call' = ctxSeen(call, "context canceled")
    /\ UNCHANGED <<now, timer, retry>>
    /\ UNCHANGED nonTimeoutVars

\* case <-ctx.Done(): OnTimeout is called when set and the DeadlineExceeded
\* status is returned
OnDone ==
    /\ tm.pc = "ctxdone"
    /\ tm' = [tm EXCEPT !.pc = "done", !.ret = TimeoutStatus,
                        !.onTimeout = IF tm.config.OnTimeout
                                      THEN Append(@, <<tm.method, tm.timeout>>) ELSE @]
    /\ UNCHANGED <<now, timer, retryVars>>
    /\ UNCHANGED nonTimeoutVars

\* The handler, run by the goroutine, returns res, which is sent on resultChan
HandlerDone(res) ==
    /\ tm.goroutine = "running"
    /\ call.pc = "idle"
    /\ tm' = send(tm, res)
    /\ UNCHANGED <<now, timer, retryVars>>
    /\ UNCHANGED nonTimeoutVars

\* The caller cancels the ambient context
CallerCancels ==
    /\ tm.pc \in {"start", "select"}
    /\ tm.parentErr = "nil"
    /\ tm' = [ctxDone(tm, "context canceled") EXCEPT !.parentErr = "context canceled"]
    /\ call' = ctxSeen(call, "context canceled")
    /\ UNCHANGED <<now, timer, retry>>
    /\ UNCHANGED nonTimeoutVars

\* a statement that takes no time is about to run
Immediate ==
    \/ tm.pc \in {"start", "received", "ctxdone"}
    \/ call.pc = "loop"
    \/ call.pc = "wait" /\ timer.attempt # call.attempt
    \/ call.pc = "done" /\ tm.goroutine = "running"

\* Time passes by one tick; at the deadline the derived context is done
Advance ==
    /\ now < MaxTime
    /\ ~Immediate
    /\ tm.pc = "select" \/ tm.goroutine = "running"
    /\ now' = now + 1
    /\ IF now + 1 >= tm.deadline
       THEN /\ tm' = ctxDone(tm, "context deadline exceeded")
            /\ call' = ctxSeen(call, "context deadline exceeded")
       ELSE UNCHANGED <<tm, call>>
    /\ UNCHANGED <<timer, retry>>
    /\ UNCHANGED nonTimeoutVars

NextTimeout ==
    \/ EnterSelect
    \/ OnResult
    \/ OnDone
    \/ \E res \in TimeoutHandlerResults : HandlerDone(res)
    \/ CallerCancels
    \/ Advance

SpecTimeout == InitTimeout /\ [][NextTimeout]_vars

(***************************************************************************)
(* Timeout around the retry interceptor: the handler the Timeout goroutine *)
(* runs is Retry.UnaryServerInterceptor with the derived context.           *)
(***************************************************************************)
TimeoutRetryOptions ==
    { [DefaultOptions EXCEPT !.maxAttempts = n, !.initialBackoff = 1,
                             !.maxBackoff = 2, !.mulNum = 2, !.jitter = j] :
        n \in 1..MaxTry, j \in BOOLEAN }

InitTimeoutRetry ==
    /\ arl = NoAdaptive
    /\ wt = NoWait
    /\ mb = NoBackend
    /\ cmw = NoCache
    /\ gor = NoGoroutines
    /\ chn = NoChainCall
    /\ cons = NoConstruction
    /\ now = 0
    /\ cb = NewCircuitBreaker(1, 1, 2, 3, 5, 1, 0)
    /\ inflight = [g \in Gens |-> 0]
    /\ last = NoReturn
    /\ calls = 0
    /\ \E o \in TimeoutRetryOptions : retry = NewRetry(o)
    /\ \E o \in TimeoutOptions, m \in Methods, e \in {"nil", "context canceled"} :
          /\ tm = StartTimeout(TimeoutConfig(o), m, e, 0)
          /\ call = [NoCall EXCEPT !.pc = "loop", !.attempt = 1, !.ctxErr = e]
    /\ timer = NoTimer
    /\ rl = NoRateLimit
    /\ pcl = NoPerClient
    /\ procs = NoProcs

\* select: time.After(backoff) starts the timer of this wait
StartTimer ==
    /\ call.pc = "wait"
    /\ timer.attempt # call.attempt
    /\ timer' = [attempt |-> call.attempt, at |-> now + call.backoff]
    /\ UNCHANGED <<now, tm, retryVars>>
    /\ UNCHANGED nonTimeoutVars

\* select: the timer of this wait has fired
TimerFires ==
    /\ timer.attempt = call.attempt
    /\ now >= timer.at
    /\ BackoffElapsed

\* The retry interceptor has returned: the goroutine sends its result
Deliver ==
    /\ tm.goroutine = "running"
    /\ call.pc = "done"
    /\ tm' = send(tm, call.ret)
    /\ UNCHANGED <<now, timer, retryVars>>
    /\ UNCHANGED nonTimeoutVars

NextTimeoutRetry ==
    \/ EnterSelect
    \/ OnResult
    \/ OnDone
    \/ CallerCancels
    \/ Advance
    \/ LoopHead
    \/ \E res \in HandlerResults : HandlerReturns(res)
    \/ StartTimer
    \/ TimerFires
    \/ WaitCancelled
    \/ Deliver

SpecTimeoutRetry == InitTimeoutRetry /\ [][NextTimeoutRetry]_vars

(***************************************************************************)
(* RateLimit middleware: requests at the times of the clock.               *)
(***************************************************************************)
MaxRequests == 5

\* <<ratePerSec, burst>>
RateLimitConfigs == { <<r, b>> : r \in 1..3, b \in 0..2 }

InitRateLimit ==
    /\ arl = NoAdaptive
    /\ wt = NoWait
    /\ mb = NoBackend
    /\ cmw = NoCache
    /\ gor = NoGoroutines
    /\ chn = NoChainCall
    /\ cons = NoConstruction
    /\ now = 0
    /\ cb = NewCircuitBreaker(1, 1, 2, 3, 5, 1, 0)
    /\ inflight = [g \in Gens |-> 0]
    /\ last = NoReturn
    /\ calls = 0
    /\ retry = NewRetry(DefaultOptions)
    /\ call = NoCall
    /\ tm = NoTimeoutCall
    /\ timer = NoTimer
    /\ \E k \in RateLimitConfigs :
          rl = [NoRateLimit EXCEPT !.limiter = NewLimiter(k[1], k[2])]
    /\ pcl = NoPerClient
    /\ procs = NoProcs

\* One call of the middleware, the handler (when invoked) returning res
Request(res) ==
    LET m == RateLimit(rl.limiter, now, res) IN
    /\ Len(rl.log) < MaxRequests
    /\ rl' = [limiter |-> m.limiter,
              log     |-> Append(rl.log, [at |-> now, admitted |-> m.admitted]),
              handled |-> IF m.admitted THEN rl.handled + 1 ELSE rl.handled,
              ret     |-> m.ret]
    /\ UNCHANGED <<now, pcl, procs>>
    /\ UNCHANGED nonRateVars

NextRateLimit ==
    \/ \E res \in {[resp |-> "success", err |-> NilErr],
                    [resp |-> "nil", err |-> StatusErr("Unavailable")]} : Request(res)
    \/ Tick

SpecRateLimit == InitRateLimit /\ [][NextRateLimit]_vars

(***************************************************************************)
(* RateLimitPerClient: goroutines that call the middleware concurrently.   *)
(***************************************************************************)
Procs == {1, 2}

\* what clientIDExtractor can return
ClientIDs == {"", "unknown", "10.0.0.1"}

InitPerClient ==
    /\ arl = NoAdaptive
    /\ wt = NoWait
    /\ mb = NoBackend
    /\ cmw = NoCache
    /\ gor = NoGoroutines
    /\ chn = NoChainCall
    /\ cons = NoConstruction
    /\ now = 0
    /\ cb = NewCircuitBreaker(1, 1, 2, 3, 5, 1, 0)
    /\ inflight = [g \in Gens |-> 0]
    /\ last = NoReturn
    /\ calls = 0
    /\ retry = NewRetry(DefaultOptions)
    /\ call = NoCall
    /\ tm = NoTimeoutCall
    /\ timer = NoTimer
    /\ rl = NoRateLimit
    /\ \E k \in {<<1, 1>>, <<2, 2>>} : pcl = NewPerClientRateLimiter(k[1], k[2])
    /\ procs = [p \in Procs |-> NoProc]

\* The middleware is called: the client id is extracted, "" becomes
\* "unknown", and GetLimiter is entered
CallPerClient(p, id) ==
    /\ procs[p].pc = "idle"
    /\ procs' = [procs EXCEPT ![p] = [NoProc EXCEPT
                    !.pc = "rlock",
                    !.clientID = IF id = "" THEN "unknown" ELSE id]]
    /\ UNCHANGED <<now, rl, pcl>>
    /\ UNCHANGED nonRateVars

\* p.mu.RLock()
RLock(p) ==
    /\ procs[p].pc = "rlock"
    /\ pcl.writer = 0
    /\ pcl' = [pcl EXCEPT !.readers = @ + 1]
    /\ procs' = [procs EXCEPT ![p].pc = "read"]
    /\ UNCHANGED <<now, rl>>
    /\ UNCHANGED nonRateVars

\* limiter, exists := p.limiters[clientID]; p.mu.RUnlock(); if exists
\* return limiter
ReadLimiter(p) ==
    LET id == procs[p].clientID
        exists == id \in DOMAIN pcl.limiters
    IN
    /\ procs[p].pc = "read"
    /\ pcl' = [pcl EXCEPT !.readers = @ - 1]
    /\ procs' = [procs EXCEPT ![p].exists = exists,
                              ![p].limiter = IF exists THEN pcl.limiters[id] ELSE 0,
                              ![p].pc = IF exists THEN "allow" ELSE "lock"]
    /\ UNCHANGED <<now, rl>>
    /\ UNCHANGED nonRateVars

\* p.mu.Lock()
Lock(p) ==
    /\ procs[p].pc = "lock"
    /\ pcl.readers = 0
    /\ pcl.writer = 0
    /\ pcl' = [pcl EXCEPT !.writer = p]
    /\ procs' = [procs EXCEPT ![p].pc = "locked"]
    /\ UNCHANGED <<now, rl>>
    /\ UNCHANGED nonRateVars

\* the double check, the creation when needed, and the deferred Unlock
CheckCreate(p) ==
    LET g == GetLimiterLocked(pcl, procs[p].clientID) IN
    /\ procs[p].pc = "locked"
    /\ pcl' = [g[1] EXCEPT !.writer = 0]
    /\ procs' = [procs EXCEPT ![p].limiter = g[2], ![p].pc = "allow"]
    /\ UNCHANGED <<now, rl>>
    /\ UNCHANGED nonRateVars

\* limiter.Allow() on the limiter obtained, then the rejection or the handler
AllowPerClient(p) ==
    LET a == Allow(pcl.buckets[procs[p].limiter], now) IN
    /\ procs[p].pc = "allow"
    /\ pcl' = [pcl EXCEPT !.buckets[procs[p].limiter] = a[1]]
    /\ procs' = [procs EXCEPT ![p].pc = "idle",
                              ![p].ret = IF a[2] THEN "handler" ELSE "ResourceExhausted"]
    /\ UNCHANGED <<now, rl>>
    /\ UNCHANGED nonRateVars

NextPerClient ==
    \/ \E p \in Procs, id \in ClientIDs : CallPerClient(p, id)
    \/ \E p \in Procs : RLock(p)
    \/ \E p \in Procs : ReadLimiter(p)
    \/ \E p \in Procs : Lock(p)
    \/ \E p \in Procs : CheckCreate(p)
    \/ \E p \in Procs : AllowPerClient(p)
    \/ Tick

SpecPerClient == InitPerClient /\ [][NextPerClient]_vars

(***************************************************************************)
(* AdaptiveRateLimiter: a sequence of AdjustRate calls.                     *)
(***************************************************************************)
MaxAdjust == 5

\* load factors in hundredths: both thresholds, their neighbours, the ends
LoadFactors == {0, 49, 50, 65, 80, 81, 100}

\* the other components, not in use
OthersIdle ==
    /\ now = 0
    /\ cb = NewCircuitBreaker(1, 1, 2, 3, 5, 1, 0)
    /\ inflight = [g \in Gens |-> 0]
    /\ last = NoReturn
    /\ calls = 0
    /\ retry = NewRetry(DefaultOptions)
    /\ call = NoCall
    /\ tm = NoTimeoutCall
    /\ timer = NoTimer
    /\ rl = NoRateLimit
    /\ pcl = NoPerClient
    /\ procs = NoProcs
    /\ cons = NoConstruction

InitAdaptive ==
    /\ OthersIdle
    /\ \E base \in {1, 10}, burst \in {1, 5} :
          arl = NewAdaptiveRateLimiter(base, burst)
    /\ wt = NoWait
    /\ mb = NoBackend
    /\ cmw = NoCache
    /\ gor = NoGoroutines
    /\ chn = NoChainCall

\* a.AdjustRate(loadFactor); the call is counted and its argument and the
\* rate it found are kept
Adjust(loadFactor) ==
    /\ arl.adjusted < MaxAdjust
    /\ arl' = [AdjustRate(arl, loadFactor) EXCEPT
                  !.adjusted = arl.adjusted + 1,
                  !.load = loadFactor,
                  !.before = arl.currentRate]
    /\ UNCHANGED wt
    /\ UNCHANGED nonAdaptVars

NextAdaptive == \E loadFactor \in LoadFactors : Adjust(loadFactor)

SpecAdaptive == InitAdaptive /\ [][NextAdaptive]_vars

(***************************************************************************)
(* RateLimitWithWait: calls one after the other, a caller that may cancel.  *)
(***************************************************************************)
MaxWaitCalls == 3

\* <<ratePerSec, burst>>
WaitConfigs == { <<1, 1>>, <<2, 1>>, <<1, 2>>, <<1, 0>> }

\* ctx.Err() of a context that is done
CtxErrors == {"context canceled", "context deadline exceeded"}

InitWait ==
    /\ OthersIdle
    /\ arl = NoAdaptive
    /\ \E k \in WaitConfigs : wt = [NoWait EXCEPT !.limiter = NewLimiter(k[1], k[2])]
    /\ mb = NoBackend
    /\ cmw = NoCache
    /\ gor = NoGoroutines
    /\ chn = NoChainCall

\* The middleware is called with a context whose Err() is ctxErr and a
\* handler that returns res.  A Wait that fails at once is wrapped in the
\* ResourceExhausted status; a token at hand lets the handler run; otherwise
\* the call blocks in Wait until wakeAt.
CallWait(ctxErr, res) ==
    LET w == Wait(wt.limiter, now, ctxErr) IN
    /\ wt.pc = "idle"
    /\ wt.served < MaxWaitCalls
    /\ wt' = IF w.err # "nil"
              THEN [wt EXCEPT !.served = @ + 1, !.ctxErr = ctxErr,
                              !.invoked = FALSE, !.outcome = "failed",
                              !.ret = WaitFailedStatus]
              ELSE IF w.delay = 0
              THEN [wt EXCEPT !.limiter = w.limiter, !.served = @ + 1,
                              !.ctxErr = "nil", !.handled = @ + 1,
                              !.invoked = TRUE, !.outcome = "admitted",
                              !.ret = res]
              ELSE [wt EXCEPT !.limiter = w.limiter, !.served = @ + 1,
                              !.ctxErr = "nil", !.invoked = FALSE,
                              !.pc = "waiting", !.wakeAt = now + w.delay,
                              !.outcome = "none"]
    /\ UNCHANGED <<now, arl>>
    /\ UNCHANGED nonAdaptVars

\* The token of the blocked Wait arrives: Wait returns nil and the handler
\* runs
TokenArrives(res) ==
    /\ wt.pc = "waiting"
    /\ now >= wt.wakeAt
    /\ wt' = [wt EXCEPT !.pc = "idle", !.handled = @ + 1, !.invoked = TRUE,
                        !.outcome = "admitted", !.ret = res]
    /\ UNCHANGED <<now, arl>>
    /\ UNCHANGED nonAdaptVars

\* The context is cancelled while Wait blocks: Wait gives its reservation
\* up and returns ctx.Err(), which the middleware wraps
CancelWait(ctxErr) ==
    /\ wt.pc = "waiting"
    /\ now < wt.wakeAt
    /\ wt' = [wt EXCEPT !.limiter = CancelAt(wt.limiter, now), !.pc = "idle",
                        !.ctxErr = ctxErr, !.outcome = "cancelled",
                        !.ret = WaitFailedStatus]
    /\ UNCHANGED <<now, arl>>
    /\ UNCHANGED nonAdaptVars

WaitHandlerResults ==
    {[resp |-> "success", err |-> NilErr],
     [resp |-> "nil", err |-> StatusErr("Unavailable")]}

NextWait ==
    \/ \E ctxErr \in CtxErrors \cup {"nil"}, res \in WaitHandlerResults :
          CallWait(ctxErr, res)
    \/ \E res \in WaitHandlerResults : TokenArrives(res)
    \/ \E ctxErr \in CtxErrors : CancelWait(ctxErr)
    \/ Tick

SpecWait == InitWait /\ [][NextWait]_vars

(***************************************************************************)
(* MemoryBackend used by one goroutine: Get, Set, Delete, Clear, the        *)
(* sweeper's cleanup, and the clock.                                        *)
(***************************************************************************)
MaxBackendOps == 3

BackendKeys == {"", "a", "b"}
BackendValues == {"v1", "v2"}
BackendTTLs == {0, 1}
BackendSizes == {1, 2}

\* the components other than the cache, not in use; the clock starts at 1
NoCacheUsers ==
    /\ now = 1
    /\ cb = NewCircuitBreaker(1, 1, 2, 3, 5, 1, 0)
    /\ inflight = [g \in Gens |-> 0]
    /\ last = NoReturn
    /\ calls = 0
    /\ retry = NewRetry(DefaultOptions)
    /\ call = NoCall
    /\ tm = NoTimeoutCall
    /\ timer = NoTimer
    /\ rl = NoRateLimit
    /\ pcl = NoPerClient
    /\ procs = NoProcs
    /\ arl = NoAdaptive
    /\ wt = NoWait
    /\ chn = NoChainCall
    /\ cons = NoConstruction

InitBackend ==
    /\ NoCacheUsers
    /\ \E maxSize \in BackendSizes : mb = NewMemoryBackend(maxSize)
    /\ cmw = NoCache
    /\ gor = NoGoroutines

BackendGet(key) ==
    LET g == Get(mb, key, now) IN
    /\ gor.ops < MaxBackendOps
    /\ mb' = g.backend
    /\ gor' = [gor EXCEPT !.ops = @ + 1, !.gets = @ + 1,
                  !.last = [op |-> "get", key |-> key, value |-> g.value,
                            found |-> g.found, hits |-> mb.stats.Hits]]
    /\ UNCHANGED <<now, cmw>>
    /\ UNCHANGED nonCacheVars

BackendSet(key, value, ttl) ==
    /\ gor.ops < MaxBackendOps
    /\ \E order \in RangeOrders(mb.data) :
          /\ mb' = Set(mb, key, value, ttl, now, order)
          /\ gor' = [gor EXCEPT
                  !.ops = @ + 1, !.sets = @ + 1,
                  !.stored = Put(Surviving(gor.stored, mb'.data), key,
                                 [value |-> value, ttl |-> ttl, at |-> now]),
                  !.last = [NoLastOp EXCEPT !.op = "set", !.key = key,
                                            !.value = value]]
    /\ UNCHANGED <<now, cmw>>
    /\ UNCHANGED nonCacheVars

BackendDelete(key) ==
    /\ gor.ops < MaxBackendOps
    /\ mb' = Delete(mb, key)
    /\ gor' = [gor EXCEPT
                  !.ops = @ + 1,
                  !.removed = IF key \in DOMAIN mb.data THEN @ + 1 ELSE @,
                  !.stored = Remove(gor.stored, key),
                  !.last = [NoLastOp EXCEPT !.op = "delete", !.key = key]]
    /\ UNCHANGED <<now, cmw>>
    /\ UNCHANGED nonCacheVars

BackendClear ==
    /\ gor.ops < MaxBackendOps
    /\ mb' = Clear(mb)
    /\ gor' = [gor EXCEPT !.ops = @ + 1, !.stored = << >>,
                          !.last = [NoLastOp EXCEPT !.op = "clear"]]
    /\ UNCHANGED <<now, cmw>>
    /\ UNCHANGED nonCacheVars

\* the sweeper's ticker fires
BackendCleanup ==
    /\ gor.ops < MaxBackendOps
    /\ mb' = cleanup(mb, now)
    /\ gor' = [gor EXCEPT !.ops = @ + 1,
                          !.stored = Surviving(gor.stored, mb'.data),
                          !.last = [NoLastOp EXCEPT !.op = "cleanup"]]
    /\ UNCHANGED <<now, cmw>>
    /\ UNCHANGED nonCacheVars

NextBackend ==
    \/ \E key \in BackendKeys : BackendGet(key)
    \/ \E key \in BackendKeys, value \in BackendValues, ttl \in BackendTTLs :
          BackendSet(key, value, ttl)
    \/ \E key \in BackendKeys : BackendDelete(key)
    \/ BackendClear
    \/ BackendCleanup
    \/ Tick

SpecBackend == InitBackend /\ [][NextBackend]_vars

(***************************************************************************)
(* MemoryBackend used by goroutines concurrently.  Get holds mu for         *)
(* reading, so several goroutines can be inside it; its m.stats.Hits++ and  *)
(* m.stats.Misses++ are a load followed by a store.  Set and Delete hold mu *)
(* for writing and are one step each.                                       *)
(***************************************************************************)
Goroutines == {1, 2}

\* a goroutine outside the backend
Outside == [pc |-> "idle", key |-> "", hit |-> FALSE, loaded |-> 0]

InitConcurrent ==
    /\ NoCacheUsers
    /\ \E maxSize \in BackendSizes : mb = NewMemoryBackend(maxSize)
    /\ cmw = NoCache
    /\ gor = [NoGoroutines EXCEPT !.procs = [p \in Goroutines |-> Outside]]

\* Get, lines 56-61, 67-68 and 77: mu.RLock(), the lookup, the expiry test
\* and the load of the counter that m.stats.Misses++ or m.stats.Hits++ is
\* about to write
GetLoad(p, key) ==
    LET hit == key \in DOMAIN mb.data /\ ~IsExpired(mb.data[key], now) IN
    /\ gor.ops < MaxBackendOps
    /\ gor.procs[p].pc = "idle"
    /\ mb.writer = 0
    /\ mb' = [mb EXCEPT !.readers = @ + 1]
    /\ gor' = [gor EXCEPT !.ops = @ + 1,
                          !.procs[p] = [pc |-> "store", key |-> key, hit |-> hit,
                                        loaded |-> IF hit THEN mb.stats.Hits
                                                   ELSE mb.stats.Misses]]
    /\ UNCHANGED <<now, cmw>>
    /\ UNCHANGED nonCacheVars

\* the rest of Get: the store of the counter, the access time of a hit,
\* updateHitRate, mu.RUnlock() and the return
GetStore(p) ==
    LET g == gor.procs[p]
        counted == IF g.hit THEN [mb.stats EXCEPT !.Hits = g.loaded + 1]
                   ELSE [mb.stats EXCEPT !.Misses = g.loaded + 1]
    IN
    /\ g.pc = "store"
    /\ mb' = [mb EXCEPT !.readers = @ - 1,
                        !.stats = updateHitRate(counted),
                        !.data = IF g.hit
                                 THEN [mb.data EXCEPT ![g.key].AccessedAt = now]
                                 ELSE mb.data]
    /\ gor' = [gor EXCEPT !.gets = @ + 1, !.procs[p] = Outside,
                          !.last = [op |-> "get", key |-> g.key,
                                    value |-> IF g.hit THEN mb.data[g.key].Value
                                              ELSE "nil",
                                    found |-> g.hit, hits |-> g.loaded]]
    /\ UNCHANGED <<now, cmw>>
    /\ UNCHANGED nonCacheVars

\* Set by some goroutine, with mu held for writing from start to end
ConcurrentSet(key, value) ==
    /\ gor.ops < MaxBackendOps
    /\ mb.readers = 0 /\ mb.writer = 0
    /\ \E order \in RangeOrders(mb.data) :
          mb' = Set(mb, key, value, 0, now, order)
    /\ gor' = [gor EXCEPT !.ops = @ + 1, !.sets = @ + 1,
                          !.last = [NoLastOp EXCEPT !.op = "set", !.key = key,
                                                    !.value = value]]
    /\ UNCHANGED <<now, cmw>>
    /\ UNCHANGED nonCacheVars

\* Delete by some goroutine, with mu held for writing from start to end
ConcurrentDelete(key) ==
    /\ gor.ops < MaxBackendOps
    /\ mb.readers = 0 /\ mb.writer = 0
    /\ mb' = Delete(mb, key)
    /\ gor' = [gor EXCEPT !.ops = @ + 1,
                          !.removed = IF key \in DOMAIN mb.data THEN @ + 1 ELSE @,
                          !.last = [NoLastOp EXCEPT !.op = "delete", !.key = key]]
    /\ UNCHANGED <<now, cmw>>
    /\ UNCHANGED nonCacheVars

NextConcurrent ==
    \/ \E p \in Goroutines, key \in BackendKeys : GetLoad(p, key)
    \/ \E p \in Goroutines : GetStore(p)
    \/ \E key \in BackendKeys : ConcurrentSet(key, "v1")
    \/ \E key \in BackendKeys : ConcurrentDelete(key)

SpecConcurrent == InitConcurrent /\ [][NextConcurrent]_vars

(***************************************************************************)
(* The Cache middleware over a MemoryBackend: calls one after the other,    *)
(* InvalidateCache, ClearCache, the sweeper and the clock.                  *)
(***************************************************************************)
MaxCacheCalls == 2

\* Cache(WithTTL(2)); with a per-method TTL and cached errors; with
\* only-methods and caching for authenticated callers (an option that
\* clears SkipAuth); with a method both in only-methods and in skip-methods
CacheConfigs ==
    { DefaultCacheConfig,
      [DefaultCacheConfig EXCEPT !.MethodTTLs = ("/M2" :> 1),
                                 !.SkipMethods = {"/Skip"},
                                 !.CacheErrors = TRUE],
      [DefaultCacheConfig EXCEPT !.OnlyMethods = {"/M1"}, !.SkipAuth = FALSE],
      [DefaultCacheConfig EXCEPT !.OnlyMethods = {"/M1", "/Skip"},
                                 !.SkipMethods = {"/Skip"}] }

\* <<user, method, request>> of the calls made
CacheCalls ==
    { << << >>, "/M1", [ID |-> 1]>>, << << >>, "/M1", [ID |-> 2]>>,
      << << >>, "/M2", [ID |-> 1]>>, << << >>, "/Skip", [ID |-> 1]>>,
      << <<"alice">>, "/M1", [ID |-> 1]>> }

\* what the handler returns
CacheHandlerResults ==
    { [resp |-> [type |-> "*mockResponse", val |-> "success"], err |-> NoErr],
      [resp |-> [type |-> "string", val |-> "success"], err |-> NoErr],
      [resp |-> NilResp,
       err |-> [kind |-> "status", code |-> "InvalidArgument", msg |-> "test error"]],
      [resp |-> NilResp,
       err |-> [kind |-> "plain", code |-> "Unknown", msg |-> "boom"]] }

InitCache ==
    /\ NoCacheUsers
    /\ \E maxSize \in BackendSizes : mb = NewMemoryBackend(maxSize)
    /\ \E config \in CacheConfigs : cmw = [NoCache EXCEPT !.config = config]
    /\ gor = NoGoroutines

\* one call of the middleware
CacheCall(user, method, req, res) ==
    /\ cmw.served < MaxCacheCalls
    /\ \E order \in RangeOrders(mb.data) :
          LET c == Cache(cmw.config, mb, user, method, req, res, now, order)
              k == GenerateKey(method, req)
          IN /\ mb' = c.backend
             /\ cmw' = [cmw EXCEPT
                    !.served = @ + 1,
                    !.handled = IF c.invoked THEN @ + 1 ELSE @,
                    !.last = [user |-> user, method |-> method, req |-> req,
                              key |-> c.key, res |-> res, ret |-> c.ret,
                              invoked |-> c.invoked, read |-> c.read,
                              written |-> c.written, hit |-> c.hit,
                              expired |-> /\ k \in DOMAIN mb.data
                                          /\ mb.data[k].ExpiresAt # ZeroTime
                                          /\ now > mb.data[k].ExpiresAt,
                              at |-> now]]
             /\ gor' = [gor EXCEPT
                    !.stored =
                        IF c.written
                        THEN Put(Surviving(gor.stored, mb'.data), c.key,
                                 [value |-> mb'.data[c.key].Value,
                                  ttl |-> IF mb'.data[c.key].ExpiresAt = ZeroTime
                                          THEN 0
                                          ELSE mb'.data[c.key].ExpiresAt - now,
                                  at |-> now, res |-> res])
                        ELSE gor.stored]
    /\ UNCHANGED now
    /\ UNCHANGED nonCacheVars

\* InvalidateCache(ctx, backend, method, req)
Invalidate(method, req) ==
    /\ mb' = Delete(mb, GenerateKey(method, req))
    /\ mb' # mb
    /\ gor' = [gor EXCEPT !.stored = Remove(gor.stored, GenerateKey(method, req))]
    /\ cmw' = [cmw EXCEPT !.last = NoCacheCall]
    /\ UNCHANGED now
    /\ UNCHANGED nonCacheVars

\* ClearCache(ctx, backend)
ClearAll ==
    /\ mb' = Clear(mb)
    /\ mb' # mb
    /\ gor' = [gor EXCEPT !.stored = << >>]
    /\ cmw' = [cmw EXCEPT !.last = NoCacheCall]
    /\ UNCHANGED now
    /\ UNCHANGED nonCacheVars

\* the sweeper's ticker fires
Sweep ==
    /\ mb' = cleanup(mb, now)
    /\ mb' # mb
    /\ gor' = [gor EXCEPT !.stored = Surviving(gor.stored, mb'.data)]
    /\ cmw' = [cmw EXCEPT !.last = NoCacheCall]
    /\ UNCHANGED now
    /\ UNCHANGED nonCacheVars

\* time passes
Elapse ==
    /\ now < MaxTime
    /\ now' = now + 1
    /\ cmw' = [cmw EXCEPT !.last = NoCacheCall]
    /\ UNCHANGED <<mb, gor>>
    /\ UNCHANGED nonCacheVars

NextCache ==
    \/ \E c \in CacheCalls, res \in CacheHandlerResults :
          CacheCall(c[1], c[2], c[3], res)
    \/ \E req \in {[ID |-> 1], [ID |-> 2]} : Invalidate("/M1", req)
    \/ ClearAll
    \/ Sweep
    \/ Elapse

SpecCache == InitCache /\ [][NextCache]_vars

(***************************************************************************)
(* Chain.UnaryInterceptor and ChainUnaryServer: one call through a chain    *)
(* of middlewares each of which calls next once, with the context it got    *)
(* extended by its own name, and returns what next returned.                *)
(***************************************************************************)
MaxChain == 3

MiddlewareNames == {"a", "b", "c"}

\* the chains: the lists of at most MaxChain middlewares
Chains == UNION { [1..n -> MiddlewareNames] : n \in 0..MaxChain }

InitChain ==
    /\ OthersIdle
    /\ arl = NoAdaptive
    /\ wt = NoWait
    /\ mb = NoBackend
    /\ cmw = NoCache
    /\ gor = NoGoroutines
    /\ \E middlewares \in Chains :
          chn = [NoChainCall EXCEPT !.middlewares = middlewares]

\* The interceptor is called with (ctx, req): the loop builds
\* currentHandler, which is then called
Intercept(ctx, req) ==
    /\ chn.pc = "idle"
    /\ chn' = [chn EXCEPT
                  !.pc = "call",
                  !.cur = BuildFrom(chn.middlewares, Len(chn.middlewares) - 1, << >>),
                  !.ctx = ctx, !.req = req]
    /\ UNCHANGED nonChainVars

\* currentHandler is a closure: its middleware is entered and calls next
EnterMiddleware ==
    /\ chn.pc = "call"
    /\ chn.cur # << >>
    /\ chn' = [chn EXCEPT
                  !.trace = Append(@, <<"enter", Head(chn.cur)>>),
                  !.active = Append(@, Head(chn.cur)),
                  !.ctx = Append(@, Head(chn.cur)),
                  !.cur = Tail(chn.cur)]
    /\ UNCHANGED nonChainVars

\* currentHandler is the final handler: it runs and returns res
FinalHandler(res) ==
    /\ chn.pc = "call"
    /\ chn.cur = << >>
    /\ chn' = [chn EXCEPT
                  !.trace = Append(@, <<"handler", "">>),
                  !.args = <<chn.ctx, chn.req>>,
                  !.res = res, !.ret = res,
                  !.pc = "return"]
    /\ UNCHANGED nonChainVars

\* next returned to the innermost waiting middleware, which returns
LeaveMiddleware ==
    /\ chn.pc = "return"
    /\ chn.active # << >>
    /\ chn' = [chn EXCEPT
                  !.trace = Append(@, <<"leave", chn.active[Len(chn.active)]>>),
                  !.active = SubSeq(@, 1, Len(@) - 1)]
    /\ UNCHANGED nonChainVars

\* the outermost handler returned: the interceptor returns
InterceptorReturns ==
    /\ chn.pc = "return"
    /\ chn.active = << >>
    /\ chn' = [chn EXCEPT !.pc = "done"]
    /\ UNCHANGED nonChainVars

NextChain ==
    \/ \E ctx \in {<< >>, <<"deadline">>}, req \in {"request", "other"} :
          Intercept(ctx, req)
    \/ EnterMiddleware
    \/ \E res \in WaitHandlerResults : FinalHandler(res)
    \/ LeaveMiddleware
    \/ InterceptorReturns

SpecChain == InitChain /\ [][NextChain]_vars

(***************************************************************************)
(* A Chain in use: NewChain, then Append, Prepend, UnaryInterceptor,        *)
(* StreamInterceptor and calls of the interceptors in any order, one call   *)
(* at a time.                                                               *)
(***************************************************************************)
MaxChainOps == 2

\* what Append and Prepend are called with
ChainArgs == { <<"a">>, <<"b">>, <<"c", "a">> }

InitChainOps ==
    /\ OthersIdle
    /\ arl = NoAdaptive
    /\ wt = NoWait
    /\ mb = NoBackend
    /\ cmw = NoCache
    /\ gor = NoGoroutines
    /\ \E middlewares \in { << >>, <<"a">>, <<"b", "c">> } :
          chn = NewChain(middlewares)

\* c.UnaryInterceptor() or c.StreamInterceptor(): the closure keeps c
GetInterceptor ==
    /\ chn.pc = "idle"
    /\ ~chn.got
    /\ chn' = [chn EXCEPT !.got = TRUE, !.obtained = chn.middlewares]
    /\ UNCHANGED nonChainVars

\* c.Append(middlewares...), before or after the interceptor was obtained
DoAppend(middlewares) ==
    /\ chn.pc = "idle"
    /\ chn.ops < MaxChainOps
    /\ Len(chn.middlewares) + Len(middlewares) <= MaxChain
    /\ chn' = [ChainAppend(chn, middlewares) EXCEPT !.ops = @ + 1]
    /\ UNCHANGED nonChainVars

\* c.Prepend(middlewares...)
DoPrepend(middlewares) ==
    /\ chn.pc = "idle"
    /\ chn.ops < MaxChainOps
    /\ Len(chn.middlewares) + Len(middlewares) <= MaxChain
    /\ chn' = [ChainPrepend(chn, middlewares) EXCEPT !.ops = @ + 1]
    /\ UNCHANGED nonChainVars

\* the interceptor of UnaryInterceptor is called
InterceptUnary(req) ==
    /\ chn.pc = "idle"
    /\ chn.got
    /\ chn' = [chn EXCEPT !.pc = "call", !.kind = "unary",
                  !.cur = UnaryHandler(chn), !.req = req]
    /\ UNCHANGED nonChainVars

\* the interceptor of StreamInterceptor is called
InterceptStream(req) ==
    /\ chn.pc = "idle"
    /\ chn.got
    /\ chn' = [chn EXCEPT !.pc = "call", !.kind = "stream",
                  !.cur = StreamHandler(chn), !.req = req]
    /\ UNCHANGED nonChainVars

\* the call is over: the chain and the interceptor stay
NextCall ==
    /\ chn.pc = "done"
    /\ chn' = [NoChainCall EXCEPT
                  !.middlewares = chn.middlewares,
                  !.streamMiddlewares = chn.streamMiddlewares,
                  !.obtained = chn.obtained, !.got = chn.got, !.ops = chn.ops]
    /\ UNCHANGED nonChainVars

NextChainOps ==
    \/ GetInterceptor
    \/ \E middlewares \in ChainArgs : DoAppend(middlewares)
    \/ \E middlewares \in ChainArgs : DoPrepend(middlewares)
    \/ \E req \in {"request", "other"} : InterceptUnary(req)
    \/ \E req \in {"request", "other"} : InterceptStream(req)
    \/ EnterMiddleware
    \/ \E res \in WaitHandlerResults : FinalHandler(res)
    \/ LeaveMiddleware
    \/ InterceptorReturns
    \/ NextCall

SpecChainOps == InitChainOps /\ [][NextChainOps]_vars

(***************************************************************************)
(* Construction of a middleware from option values, valid or not.           *)
(***************************************************************************)
\* option values: counts, durations in milliseconds, ratios <<num, den>>
AttemptOptions == {-1, 0, 1, 5}
DurationOptions == {-1, 0, 50}
MultiplierOptions == { <<1, 2>>, <<1, 1>>, <<3, 1>> }
ThresholdOptions == { <<-1, 2>>, <<0, 1>>, <<1, 2>>, <<1, 1>>, <<3, 2>> }
TTLOptions == {-1, 0, 5}

InitConfig ==
    /\ OthersIdle
    /\ arl = NoAdaptive
    /\ wt = NoWait
    /\ mb = NoBackend
    /\ cmw = NoCache
    /\ gor = NoGoroutines
    /\ chn = NoChainCall

\* NewRetry(WithMaxAttempts(n), WithInitialBackoff(d0), WithMaxBackoff(d1),
\*          WithBackoffMultiplier(m))
ConstructRetry(n, d0, d1, m) ==
    /\ cons' = [kind |-> "retry",
                given |-> [maxAttempts |-> n, initialBackoff |-> d0,
                           maxBackoff |-> d1, multiplier |-> m],
                built |-> WithBackoffMultiplier(
                              WithMaxBackoff(
                                  WithInitialBackoff(
                                      WithMaxAttempts(NewRetry(DefaultOptions), n),
                                      d0),
                                  d1),
                              m[1], m[2]),
                err |-> "nil"]
    /\ UNCHANGED nonConfigVars

\* NewCircuitBreaker(WithFailureThreshold(f)), the other fields at their
\* defaults (60 s are 60 ticks here)
ConstructBreaker(f) ==
    /\ cons' = [kind |-> "breaker",
                given |-> [failureThreshold |-> f],
                built |-> WithFailureThreshold(
                              NewCircuitBreaker(1, 60, 60, 3, 5, 1, now), f[1], f[2]),
                err |-> "nil"]
    /\ UNCHANGED nonConfigVars

\* Cache(WithTTL(ttl))
ConstructCache(ttl) ==
    /\ cons' = [kind |-> "cache",
                given |-> [TTL |-> ttl],
                built |-> WithTTL(DefaultCacheConfig, ttl),
                err |-> "nil"]
    /\ UNCHANGED nonConfigVars

NextConfig ==
    \/ \E n \in AttemptOptions, d0 \in DurationOptions, d1 \in DurationOptions,
          m \in MultiplierOptions : ConstructRetry(n, d0, d1, m)
    \/ \E f \in ThresholdOptions : ConstructBreaker(f)
    \/ \E ttl \in TTLOptions : ConstructCache(ttl)

SpecConfig == InitConfig /\ [][NextConfig]_vars

(***************************************************************************)
(* The breaker under a burst of failures: it idles Closed for some time,    *)
(* then requests arrive and fail, all at one instant.                       *)
(***************************************************************************)
\* the breaker idles: time passes before the first request
IdleTick ==
    /\ calls = 0
    /\ Tick

NextWindow ==
    \/ IdleTick
    \/ Admit
    \/ \E g \in Gens : Complete(g, PlainErr)

SpecWindow == Init /\ [][NextWindow]_vars

(***************************************************************************)
(* The breaker after it opened, with requests that keep arriving and        *)
(* handlers that all succeed.                                               *)
(***************************************************************************)
\* <<maxRequests, interval, timeout, ftNum, ftDen, successThreshold>> with
\* maxRequests >= 1 and successThreshold >= 1
ProbeConfigs ==
    { <<1, 1, 2, 3, 5, 1>>, <<2, 1, 2, 1, 2, 2>>, <<1, 1, 2, 1, 2, 2>> }

\* the breaker has just opened, as after setState(StateOpen, now) in
\* TestCircuitBreakerStateCallback
InitProbe ==
    /\ arl = NoAdaptive
    /\ wt = NoWait
    /\ mb = NoBackend
    /\ cmw = NoCache
    /\ gor = NoGoroutines
    /\ chn = NoChainCall
    /\ cons = NoConstruction
    /\ now = 0
    /\ \E k \in ProbeConfigs :
          cb = Fresh(setState(NewCircuitBreaker(k[1], k[2], k[3], k[4], k[5], k[6], 0),
                              StateOpen, 0))
    /\ inflight = [g \in Gens |-> 0]
    /\ last = NoReturn
    /\ calls = 0
    /\ tm = NoTimeoutCall
    /\ timer = NoTimer
    /\ rl = NoRateLimit
    /\ pcl = NoPerClient
    /\ procs = NoProcs
    /\ retry = NewRetry(DefaultOptions)
    /\ call = NoCall

\* the handler of a request admitted under generation g succeeds
Succeed == \E g \in Gens : Complete(g, NilErr)

NextProbe ==
    \/ Tick
    \/ Admit
    \/ Succeed

\* time passes, requests keep arriving and every handler returns
SpecProbe ==
    /\ InitProbe
    /\ [][NextProbe]_vars
    /\ WF_vars(Tick)
    /\ WF_vars(Admit)
    /\ WF_vars(Succeed)

(***************************************************************************)
(* The Cache middleware called by several goroutines: a call is a step up   *)
(* to the handler's invocation (or the return of a hit) and a step from the *)
(* handler's return.                                                        *)
(***************************************************************************)
MaxFlightCalls == 3

FlightConfigs == {DefaultCacheConfig, [DefaultCacheConfig EXCEPT !.CacheErrors = TRUE]}

FlightResults ==
    { [resp |-> [type |-> "*mockResponse", val |-> "success"], err |-> NoErr],
      [resp |-> NilResp,
       err |-> [kind |-> "status", code |-> "InvalidArgument", msg |-> "test error"]] }

InitFlight ==
    /\ NoCacheUsers
    /\ mb = NewMemoryBackend(2)
    /\ \E config \in FlightConfigs : cmw = [NoCache EXCEPT !.config = config]
    /\ gor = [NoGoroutines EXCEPT !.procs = [p \in Goroutines |-> NoFlight]]

\* goroutine p calls the middleware: a hit returns, a miss calls the handler
FlightEnter(p, method, req) ==
    LET b == CacheBefore(cmw.config, mb, << >>, method, req, now) IN
    /\ gor.procs[p].pc = "idle"
    /\ cmw.served < MaxFlightCalls
    /\ mb' = b.backend
    /\ gor' = [gor EXCEPT !.procs[p] =
                  [pc |-> IF b.hit THEN "done" ELSE "handler",
                   method |-> method, key |-> b.key, ret |-> b.ret]]
    /\ cmw' = [cmw EXCEPT !.served = @ + 1,
                          !.handled = IF b.hit THEN @ ELSE @ + 1]
    /\ UNCHANGED now
    /\ UNCHANGED nonCacheVars

\* the handler called by goroutine p returns res
FlightHandlerReturns(p, res) ==
    /\ gor.procs[p].pc = "handler"
    /\ \E order \in RangeOrders(mb.data) :
          mb' = CacheAfter(cmw.config, mb, gor.procs[p].method, gor.procs[p].key,
                           res, now, order)
    /\ gor' = [gor EXCEPT !.procs[p].pc = "done", !.procs[p].ret = res]
    /\ UNCHANGED <<now, cmw>>
    /\ UNCHANGED nonCacheVars

\* the call of goroutine p is over
FlightLeave(p) ==
    /\ gor.procs[p].pc = "done"
    /\ gor' = [gor EXCEPT !.procs[p] = NoFlight]
    /\ UNCHANGED <<now, mb, cmw>>
    /\ UNCHANGED nonCacheVars

NextFlight ==
    \/ \E p \in Goroutines, req \in {[ID |-> 1], [ID |-> 2]} : FlightEnter(p, "/M1", req)
    \/ \E p \in Goroutines, res \in FlightResults : FlightHandlerReturns(p, res)
    \/ \E p \in Goroutines : FlightLeave(p)

SpecFlight == InitFlight /\ [][NextFlight]_vars

(***************************************************************************)
(* Properties of the circuit breaker (specification Spec).                 *)
(***************************************************************************)
Elapsed == now - cb.stateChangedAt

\* the Open period is over: the next call of currentState makes it HalfOpen
OpenExpired == cb.state = StateOpen /\ Elapsed >= cb.timeout

\* the rolling interval is over: the next call of currentState zeroes the counts
WindowExpired == cb.state = StateClosed /\ cb.interval > 0 /\ Elapsed > cb.interval

\* the generation currentState(now) reports
CurrentGeneration == IF OpenExpired THEN cb.generation + 1 ELSE cb.generation

RejectPrefix == "circuit breaker: "

\* C1: while the breaker is Open and less than timeout has elapsed since it
\* opened, an admission fails: beforeRequest returns ErrCircuitOpen, the
\* middleware returns an Unavailable status whose message starts with
\* "circuit breaker: ", and the inner handler is not invoked.
C1_OpenRejects ==
    [][ (cb.state = StateOpen /\ Elapsed < cb.timeout /\ last'.op = "admit")
        => /\ last'.err = ErrCircuitOpen
           /\ last'.status.code = "Unavailable"
           /\ SubSeq(last'.status.msg, 1, Len(RejectPrefix)) = RejectPrefix
           /\ calls' = calls
           /\ inflight' = inflight ]_vars

\* C1 witness: an admission was rejected one tick after the breaker opened
C1_Witness ==
    /\ last.op = "admit"
    /\ last.err = ErrCircuitOpen
    /\ cb.state = StateOpen
    /\ Elapsed = 1
    /\ cb.timeout = 2

\* C2: an outcome given to afterRequest with a generation that is not the
\* breaker's current one is discarded: the counts and the state after the call
\* are those the clock alone gives (the refresh of currentState that every
\* call makes: counts zeroed when the rolling interval or the Open period is
\* over, else unchanged), whatever the outcome was.
C2_StaleDiscarded ==
    [][ (last'.op = "complete" /\ last'.gen # CurrentGeneration)
        => /\ cb'.counts = IF WindowExpired \/ OpenExpired THEN ZeroCounts ELSE cb.counts
           /\ cb'.state = IF OpenExpired THEN StateHalfOpen ELSE cb.state
           /\ cb'.generation = CurrentGeneration
           /\ cb'.halfOpenRequests = IF OpenExpired THEN 0 ELSE cb.halfOpenRequests ]_vars

\* C2 witness: a failure admitted under an older generation was recorded
\* while the breaker, in a later state, holds counts
C2_Witness ==
    /\ last.op = "complete"
    /\ last.failure
    /\ last.gen < cb.generation
    /\ cb.counts.Requests > 0

\* C3: a current-generation failure recorded in Closed opens the breaker if
\* and only if, with that failure counted, Requests >= 10 and
\* TotalFailures/Requests >= failureThreshold; a success recorded in Closed
\* leaves it Closed.
C3_OpensAtThreshold ==
    [][ (cb.state = StateClosed /\ last'.op = "complete" /\ last'.gen = cb.generation)
        => LET base == IF WindowExpired THEN ZeroCounts ELSE cb.counts
               requests == base.Requests
               failures == base.TotalFailures + 1
           IN IF last'.failure
              THEN /\ cb'.state \in {StateClosed, StateOpen}
                   /\ cb'.state = StateOpen
                        <=> /\ requests >= 10
                            /\ failures * cb.ftDen >= cb.ftNum * requests
              ELSE cb'.state = StateClosed ]_vars

\* C3 witness: a failure in Closed has just opened the breaker
C3_Witness ==
    /\ last.op = "complete"
    /\ last.failure
    /\ cb.state = StateOpen
    /\ cb.onStateChange = << <<StateClosed, StateOpen>> >>

\* C4: in HalfOpen a current-generation failure opens the breaker; a
\* current-generation success closes it exactly when ConsecutiveSuccesses,
\* with that success counted, has reached successThreshold, and otherwise the
\* breaker stays HalfOpen.
C4_ProbeOutcome ==
    [][ (cb.state = StateHalfOpen /\ last'.op = "complete" /\ last'.gen = cb.generation)
        => IF last'.failure
           THEN cb'.state = StateOpen
           ELSE cb'.state = IF cb.counts.ConsecutiveSuccesses + 1 >= cb.successThreshold
                            THEN StateClosed ELSE StateHalfOpen ]_vars

\* C4 witness: a probe succeeded and the breaker is still HalfOpen
C4_Witness ==
    /\ last.op = "complete"
    /\ ~last.failure
    /\ last.gen = cb.generation
    /\ cb.state = StateHalfOpen
    /\ cb.counts.ConsecutiveSuccesses = 1

AdmittedAsProbe ==
    /\ last'.err = "nil"
    /\ calls' = calls + 1
    /\ cb'.state = StateHalfOpen

\* C5 as claimed: once the Open period is over, the next admission makes the
\* breaker HalfOpen (one transition, generation + 1, probe count from zero) or
\* finds it HalfOpen with no probe admitted yet, and is let through as a probe.
C5_NextAdmissionProbes ==
    [][ (last'.op = "admit" =>
            /\ OpenExpired
                 => /\ cb'.generation = cb.generation + 1
                    /\ cb'.onStateChange = << <<StateOpen, StateHalfOpen>> >>
                    /\ cb'.halfOpenRequests = 1
                    /\ AdmittedAsProbe
            /\ (cb.state = StateHalfOpen /\ cb.halfOpenRequests = 0)
                 => /\ cb'.generation = cb.generation
                    /\ cb'.onStateChange = << >>
                    /\ cb'.halfOpenRequests = 1
                    /\ AdmittedAsProbe)
        /\ (cb.state = StateOpen /\ cb'.state = StateHalfOpen => OpenExpired) ]_vars

\* C5 amended: the same, the admission being let through as a probe when
\* maxRequests >= 1; with maxRequests = 0 it is rejected with
\* ErrTooManyRequests, the breaker HalfOpen all the same.
C5_NextAdmissionProbesIfAllowed ==
    [][ (last'.op = "admit" =>
            /\ OpenExpired
                 => /\ cb'.generation = cb.generation + 1
                    /\ cb'.onStateChange = << <<StateOpen, StateHalfOpen>> >>
                    /\ cb'.state = StateHalfOpen
                    /\ IF cb.maxRequests >= 1
                       THEN cb'.halfOpenRequests = 1 /\ AdmittedAsProbe
                       ELSE /\ cb'.halfOpenRequests = 0
                            /\ last'.err = ErrTooManyRequests
                            /\ calls' = calls
            /\ (cb.state = StateHalfOpen /\ cb.halfOpenRequests = 0)
                 => /\ cb'.generation = cb.generation
                    /\ cb'.onStateChange = << >>
                    /\ cb'.state = StateHalfOpen
                    /\ IF cb.maxRequests >= 1
                       THEN cb'.halfOpenRequests = 1 /\ AdmittedAsProbe
                       ELSE /\ cb'.halfOpenRequests = 0
                            /\ last'.err = ErrTooManyRequests
                            /\ calls' = calls)
        /\ (cb.state = StateOpen /\ cb'.state = StateHalfOpen => OpenExpired) ]_vars

\* C5 witness: the admission that made the breaker HalfOpen, let through
C5_Witness ==
    /\ last.op = "admit"
    /\ last.err = "nil"
    /\ cb.state = StateHalfOpen
    /\ cb.halfOpenRequests = 1
    /\ cb.onStateChange = << <<StateOpen, StateHalfOpen>> >>
    /\ Elapsed = 0

\* probes of the current HalfOpen period whose handler has not returned
ProbesInFlight == inflight[cb.generation]

C7_CountsBalance ==
    InFlightTotal = 0
        => cb.counts.Requests = cb.counts.TotalSuccesses + cb.counts.TotalFailures

\* C8: after Reset() the state is Closed and all counts are zero.
C8_ResetZeroes ==
    last.op = "reset" => (cb.state = StateClosed /\ cb.counts = ZeroCounts)

(***************************************************************************)
(* Properties of the retry engine (specification SpecRetry).               *)
(***************************************************************************)
\* the error is a status error whose code is in the policy's retryable set
Retryable(err) == err.kind = "status" /\ err.code \in retry.retryableErrors

\* the first n handler invocations all returned a retryable error
AllRetryable(n) == \A i \in 1..n : Retryable(call.trace[i].err)

\* C9: the handler is invoked at most maxAttempts times, and exactly
\* maxAttempts times when every attempt returned a retryable error and the
\* context was never cancelled; the call then returns the error of the last
\* attempt unchanged.
C9_AttemptsBounded ==
    /\ Len(call.trace) <= retry.maxAttempts
    /\ (call.pc = "done" /\ call.ctxErr = "nil" /\ AllRetryable(Len(call.trace)))
         => /\ Len(call.trace) = retry.maxAttempts
            /\ call.ret.err = call.trace[retry.maxAttempts].err

\* C9 witness: three attempts failed with retryable errors, the last one
\* different from the first, and the call returned the last one
C9_Witness ==
    /\ call.pc = "done"
    /\ call.ctxErr = "nil"
    /\ retry.maxAttempts = 3
    /\ Len(call.trace) = 3
    /\ AllRetryable(3)
    /\ call.trace[1].err # call.trace[3].err
    /\ call.ret.err = call.trace[3].err

\* C10: when the handler returned retryable errors k-1 times and then
\* succeeded, without cancellation, the call returns that response and a nil
\* error after exactly k invocations (the handler is not invoked after a
\* success) and k-1 backoff waits.
C10_SuccessAfterRetries ==
    /\ \A i \in 1..(Len(call.trace) - 1) : call.trace[i].err.kind # "nil"
    /\ (/\ call.pc = "done"
        /\ call.ctxErr = "nil"
        /\ call.trace # << >>
        /\ LastResult.err.kind = "nil"
        /\ AllRetryable(Len(call.trace) - 1))
         => /\ call.ret = [resp |-> LastResult.resp, err |-> NilErr]
            /\ call.ret.resp = "success"
            /\ Len(call.waits) = Len(call.trace) - 1
            /\ Len(call.trace) <= retry.maxAttempts

\* C10 witness: two retryable failures, then a success, returned after two waits
C10_Witness ==
    /\ call.pc = "done"
    /\ call.ctxErr = "nil"
    /\ Len(call.trace) = 3
    /\ AllRetryable(2)
    /\ call.ret = [resp |-> "success", err |-> NilErr]
    /\ Len(call.waits) = 2

\* C11: an error of the handler that is no status error, or whose code is not
\* in the policy's retryable set (the set of WithRetryableCodes in place of
\* the defaults), ends the loop at once: it is the last invocation of the
\* handler, the call has returned it unchanged, and no backoff was computed
\* or waited for after it.
C11_NonRetryableEnds ==
    /\ \A i \in 1..(Len(call.trace) - 1) : Retryable(call.trace[i].err)
    /\ (/\ call.trace # << >>
        /\ LastResult.err.kind # "nil"
        /\ ~Retryable(LastResult.err))
         => /\ call.pc = "done"
            /\ call.ret = LastResult
            /\ Len(call.onRetry) = Len(call.trace) - 1
            /\ Len(call.waits) = Len(call.trace) - 1

\* C11 witness: with WithRetryableCodes(Unavailable) an Aborted error, one of
\* the default codes, ended the call after one retry
C11_Witness ==
    /\ call.pc = "done"
    /\ retry.retryableErrors = {"Unavailable"}
    /\ Len(call.trace) = 2
    /\ call.trace[1].err = StatusErr("Unavailable")
    /\ call.ret.err = StatusErr("Aborted")
    /\ Len(call.waits) = 1

\* C12: when the context is cancelled (or past its deadline) while the engine
\* waits between attempts or is about to start an attempt, the handler is not
\* invoked again and what the call returns is a nil response and the
\* context's error; a wait whose timer fires all the same leads to the check
\* before the attempt, which returns.
C12_CancelStopsRetry ==
    [][ (call.ctxErr # "nil" /\ call.pc \in {"loop", "wait"})
        => /\ call'.pc # "handler"
           /\ call'.trace = call.trace
           /\ call'.pc = "done"
                => call'.ret = [resp |-> "nil", err |-> CtxError(call.ctxErr)]
           /\ call'.pc # "done" => (call.pc = "wait" /\ call'.pc = "loop") ]_vars

\* C12 witness: cancelled during the first wait of a three-attempt policy,
\* the call returned the cancellation after one invocation
C12_Witness ==
    /\ call.pc = "done"
    /\ retry.maxAttempts = 3
    /\ Len(call.trace) = 1
    /\ Len(call.onRetry) = 1
    /\ call.waits = << >>
    /\ call.ctxErr = "context canceled"
    /\ call.ret = [resp |-> "nil", err |-> CtxError("context canceled")]

\* C13: cancellation always wins: a call that returns while its context is
\* cancelled returns a nil response and the context's error, never the
\* handler's response, a non-retryable error or the last attempt's error.
C13_CancellationWins ==
    (call.pc = "done" /\ call.ctxErr # "nil")
        => call.ret = [resp |-> "nil", err |-> CtxError(call.ctxErr)]

(***************************************************************************)
(* Properties of calculateBackoff (specification SpecBackoff).             *)
(***************************************************************************)
\* calculateBackoff(i), once computed
BackoffOf(i) == call.onRetry[i][2]

\* min(maxBackoff, v * multiplier), truncated to a whole duration
ScaledCapped(v) ==
    IF v * retry.mulNum > retry.maxBackoff * retry.mulDen
    THEN retry.maxBackoff
    ELSE (v * retry.mulNum) \div retry.mulDen

Expires == tm.ctxErr = "nil" /\ tm'.ctxErr = "context deadline exceeded"

\* the timeout that applies to the call's method
ApplicableTimeout ==
    IF tm.method \in DOMAIN tm.config.PerMethod
    THEN tm.config.PerMethod[tm.method] ELSE tm.config.Timeout

DeadlineExceededStatus == [kind |-> "status", code |-> "DeadlineExceeded"]

\* C15: when the timeout T of the call's method (its per-method entry when
\* listed, else the default) expires while the handler has not returned, the
\* middleware is woken on ctx.Done() and returns a nil response and a
\* DeadlineExceeded status; the context given to the handler is done from
\* then on.
C15_ExpiryReturnsDeadlineExceeded ==
    [][ /\ (Expires /\ tm.goroutine = "running" /\ tm.pc # "done")
            => /\ now' = ApplicableTimeout
               /\ tm.pc = "select"
               /\ tm'.pc = "ctxdone"
        /\ tm.pc = "ctxdone"
            => /\ tm'.pc \in {"ctxdone", "done"}
               /\ tm'.pc = "done"
                    => (tm'.ret.resp = "nil" /\ tm'.ret.err = DeadlineExceededStatus)
        /\ tm.ctxErr # "nil" => tm'.ctxErr = tm.ctxErr ]_vars

\* C15 witness: the per-method timeout of one tick expired, the middleware
\* returned DeadlineExceeded and the handler still runs with a done context
C15_Witness ==
    /\ tm.pc = "done"
    /\ tm.method = "/test.Service/FastMethod"
    /\ tm.config.Timeout = 2
    /\ now = 1
    /\ tm.parentErr = "nil"
    /\ tm.ctxErr = "context deadline exceeded"
    /\ tm.goroutine = "running"
    /\ tm.ret = [resp |-> "nil", err |-> DeadlineExceededStatus]

\* C16: DeadlineExceeded is reported only for an expired deadline: when the
\* middleware returns because the caller cancelled the ambient context, the
\* handler not having returned and T not having elapsed, the error returned
\* is the cancellation error and onTimeout is not called.
C16_CancelNotDeadline ==
    [][ (/\ tm.pc = "ctxdone"
         /\ tm.ctxErr = "context canceled"
         /\ tm.goroutine = "running"
         /\ now < tm.deadline
         /\ tm'.pc = "done")
        => /\ tm'.ret.err = CtxError("context canceled")
           /\ tm'.onTimeout = << >> ]_vars

\* handler invocations of the retry call, the running one included
Invoked == Len(call.trace) + IF call.pc = "handler" THEN 1 ELSE 0

\* the deadline passes while the retry call has not returned
ExpiresDuringRetry ==
    Expires /\ tm.pc = "select" /\ call.pc \in {"handler", "wait"}

\* C17 as claimed: when the deadline T of a Timeout around the retry
\* interceptor passes before the attempts and backoffs of an always
\* retryable failure are over, the caller receives DeadlineExceeded at T, the
\* handler has been invoked at least once and fewer than maxAttempts times,
\* and no attempt starts once the deadline has passed.
C17_DeadlineCutsRetry ==
    [][ /\ ExpiresDuringRetry
            => /\ tm'.pc = "ctxdone"
               /\ AllRetryable(Len(call.trace))
               /\ Invoked >= 1
               /\ Invoked < retry.maxAttempts
        /\ (tm.pc = "ctxdone" /\ tm'.pc = "done")
            => /\ tm'.ret.err = DeadlineExceededStatus
               /\ tm.ctxErr = "context deadline exceeded" => now' = tm.deadline
        /\ (call.pc # "handler" /\ call'.pc = "handler")
            => (tm.ctxErr = "nil" /\ now < tm.deadline) ]_vars

\* C17 amended: the same, the handler having been invoked at least once and
\* at most maxAttempts times: fewer than maxAttempts unless it is the last
\* attempt that is running when the deadline passes.
C17_DeadlineCutsRetryAtMost ==
    [][ /\ ExpiresDuringRetry
            => /\ tm'.pc = "ctxdone"
               /\ AllRetryable(Len(call.trace))
               /\ Invoked >= 1
               /\ Invoked <= retry.maxAttempts
               /\ Invoked = retry.maxAttempts => call.pc = "handler"
        /\ (tm.pc = "ctxdone" /\ tm'.pc = "done")
            => /\ tm'.ret.err = DeadlineExceededStatus
               /\ tm.ctxErr = "context deadline exceeded" => now' = tm.deadline
        /\ (call.pc # "handler" /\ call'.pc = "handler")
            => (tm.ctxErr = "nil" /\ now < tm.deadline) ]_vars

\* C17 witness: T = 3, the first attempt failed with Unavailable, the wait
\* of one tick is over and the second of three attempts runs when the
\* caller receives DeadlineExceeded at T
C17_Witness ==
    /\ tm.pc = "done"
    /\ tm.ret.err = DeadlineExceededStatus
    /\ tm.ctxErr = "context deadline exceeded"
    /\ now = 3 /\ tm.deadline = 3
    /\ retry.maxAttempts = 3
    /\ call.pc = "handler"
    /\ call.trace = << [resp |-> "nil", err |-> StatusErr("Unavailable")] >>
    /\ call.waits = <<1>>

(***************************************************************************)
(* Properties of the rate limiters (specifications SpecRateLimit and       *)
(* SpecPerClient).                                                          *)
(***************************************************************************)
\* a call of the RateLimit middleware happens in this step
Requested == Len(rl'.log) = Len(rl.log) + 1

\* the tokens the bucket holds now, in units of 1/TicksPerSecond token
Available ==
    LET filled == rl.limiter.tokens + (now - rl.limiter.last) * rl.limiter.limit
        full == rl.limiter.burst * TicksPerSecond
    IN IF filled > full THEN full ELSE filled

\* C18: a call of RateLimit is one step that does not wait.  With less than
\* one token in the bucket it returns a nil response and a ResourceExhausted
\* status, the handler is not invoked and no token is taken; otherwise
\* exactly one token is taken, the handler is invoked exactly once and its
\* result is returned.
C18_AdmitTakesOneToken ==
    [][ Requested =>
          IF Available < TicksPerSecond
          THEN /\ rl'.ret = [resp |-> "nil", err |-> [kind |-> "status", code |-> "ResourceExhausted"]]
               /\ rl'.handled = rl.handled
               /\ ~rl'.log[Len(rl'.log)].admitted
               /\ rl'.limiter = rl.limiter
          ELSE /\ rl'.handled = rl.handled + 1
               /\ rl'.log[Len(rl'.log)].admitted
               /\ rl'.limiter.tokens = Available - TicksPerSecond
               /\ rl'.limiter.last = now
               /\ rl'.ret.err.code # "ResourceExhausted" ]_vars

\* C18 witness: rate 2, burst 1: admitted at time 0, rejected at time 1 with
\* half a token, admitted again at time 2
C18_Witness ==
    /\ rl.limiter.limit = 2 /\ rl.limiter.burst = 1
    /\ rl.log = << [at |-> 0, admitted |-> TRUE], [at |-> 1, admitted |-> FALSE],
                   [at |-> 2, admitted |-> TRUE] >>
    /\ rl.handled = 2
    /\ rl.limiter.tokens = 0

\* requests i..j of the log that were admitted
AdmittedBetween(i, j) == Cardinality({k \in i..j : rl.log[k].admitted})

\* ceil(r * W) for a window of w ticks
CeilTokens(w) == (rl.limiter.limit * w + TicksPerSecond - 1) \div TicksPerSecond

\* C19: the requests admitted in any window of time, from one request to a
\* later one, are at most ceil(r * W) + b for the window's length W; of the
\* requests made at time 0, when the bucket is full, exactly the first b are
\* admitted.
C19_WindowBound ==
    /\ \A i \in 1..Len(rl.log) : \A j \in i..Len(rl.log) :
          AdmittedBetween(i, j)
              <= CeilTokens(rl.log[j].at - rl.log[i].at) + rl.limiter.burst
    /\ \A k \in 1..Len(rl.log) :
          rl.log[k].at = 0 => (rl.log[k].admitted <=> k <= rl.limiter.burst)

\* C19 witness: rate 3, burst 2: five requests, two admitted at time 0, a
\* third rejected, then one admitted at time 2 and one at time 3: four in a
\* window of three ticks, ceil(3 * 3/4) + 2 = 5
C19_Witness ==
    /\ rl.limiter.limit = 3 /\ rl.limiter.burst = 2
    /\ Len(rl.log) = 5
    /\ rl.log[3] = [at |-> 0, admitted |-> FALSE]
    /\ rl.log[4] = [at |-> 2, admitted |-> TRUE]
    /\ rl.log[5] = [at |-> 3, admitted |-> TRUE]
    /\ AdmittedBetween(1, 5) = 4

\* every key has at most one bucket ever created for it, the one the map
\* holds, and a goroutine that obtained a limiter holds that one
OneBucketPerKey ==
    /\ \A i, j \in 1..Len(pcl.owner) : pcl.owner[i] = pcl.owner[j] => i = j
    /\ Len(pcl.buckets) = Len(pcl.owner)
    /\ Cardinality(DOMAIN pcl.limiters) = Len(pcl.owner)
    /\ \A k \in DOMAIN pcl.limiters : pcl.owner[pcl.limiters[k]] = k
    /\ \A p \in Procs :
          procs[p].pc = "allow"
              => /\ procs[p].clientID \in DOMAIN pcl.limiters
                 /\ procs[p].limiter = pcl.limiters[procs[p].clientID]

\* a bucket of the map is not replaced, and a step of a goroutine changes
\* the tokens of no bucket but the one of its own key
BucketsKept ==
    /\ \A k \in DOMAIN pcl.limiters :
          k \in DOMAIN pcl'.limiters /\ pcl'.limiters[k] = pcl.limiters[k]
    /\ \A i \in 1..Len(pcl.buckets) :
          pcl'.buckets[i] # pcl.buckets[i]
              => \E p \in Procs : /\ procs[p].pc = "allow"
                                  /\ procs'[p].pc = "idle"
                                  /\ pcl.owner[i] = procs[p].clientID

\* C20: under every interleaving of concurrent GetLimiter calls each client
\* key has exactly one bucket for the life of the PerClientRateLimiter: it is
\* created on first use only, all callers with the same key obtain it, the
\* bucket of a key is never replaced, and an admission for one key takes no
\* token of another key's bucket.
C20_OneBucketPerKey == []OneBucketPerKey /\ [][BucketsKept]_vars

\* C20 witness: both goroutines found no limiter for the same new key and
\* went for the write lock; the first created the bucket, the second found
\* it in the double check, and both hold bucket 1, from which one token has
\* been taken
C20_Witness ==
    /\ procs[1].clientID = "unknown" /\ procs[2].clientID = "unknown"
    /\ ~procs[1].exists /\ ~procs[2].exists
    /\ procs[1].pc = "idle" /\ procs[1].ret = "handler"
    /\ procs[2].pc = "allow" /\ procs[2].limiter = 1
    /\ pcl.owner = <<"unknown">>
    /\ pcl.buckets[1].tokens < pcl.burst * TicksPerSecond

(***************************************************************************)
(* Properties of the adaptive rate limiter (specification SpecAdaptive).    *)
(***************************************************************************)
MinFrac(f, g) == IF Less(g, f) THEN g ELSE f
MaxFrac(f, g) == IF Greater(g, f) THEN g ELSE f

\* the rate lies in [0.5 * base, 2 * base]
RateInRange ==
    /\ ~Less(arl.currentRate, Times(arl.baseRate, 1, 2))
    /\ ~Greater(arl.currentRate, Times(arl.baseRate, 2, 1))

\* what the last AdjustRate call made of the rate it found
RateAsAdjusted ==
    arl.adjusted > 0 =>
        IF arl.load < 50
        THEN arl.currentRate =
                 MinFrac(Times(arl.before, 6, 5), Times(arl.baseRate, 2, 1))
        ELSE IF arl.load > 80
        THEN arl.currentRate =
                 MaxFrac(Times(arl.before, 4, 5), Times(arl.baseRate, 1, 2))
        ELSE /\ arl.before = arl.baseRate => arl.currentRate = arl.baseRate
             /\ Greater(arl.before, arl.baseRate) =>
                    arl.currentRate = Times(arl.before, 19, 20)
             /\ Less(arl.before, arl.baseRate) =>
                    arl.currentRate = Times(arl.before, 21, 20)

\* C21: after any sequence of AdjustRate calls the current rate is within
\* [0.5 * base, 2 * base]; a load factor below 0.5 multiplies the rate by 1.2
\* capped at 2 * base, one above 0.8 multiplies it by 0.8 floored at
\* 0.5 * base, any other multiplies it by 0.95 or 1.05 in the direction of
\* base and leaves a rate equal to base unchanged; the underlying limiter
\* has the current rate as its limit.
C21_AdaptiveRateBounded ==
    /\ RateInRange
    /\ RateAsAdjusted
    /\ arl.limit = arl.currentRate

\* the cap at 2 * base was applied by the last call
C21_Witness ==
    /\ arl.adjusted > 0
    /\ arl.load < 50
    /\ Greater(Times(arl.before, 6, 5), Times(arl.baseRate, 2, 1))
    /\ arl.currentRate = Times(arl.baseRate, 2, 1)

(***************************************************************************)
(* Properties of RateLimitWithWait (specification SpecWait).                *)
(***************************************************************************)
\* the last call was cancelled while it waited for a token
CancelledWaiting == wt.outcome = "cancelled"

\* C22: when the context is cancelled while RateLimitWithWait waits for a
\* token, the middleware returns the context's cancellation cause unchanged
\* and does not invoke the handler.
C22_CancelledWaitReturnsCause ==
    CancelledWaiting =>
        /\ wt.ret = [resp |-> "nil", err |-> CtxError(wt.ctxErr)]
        /\ ~wt.invoked

\* what the code does: the handler is not invoked, and the cause comes back
\* wrapped in a ResourceExhausted status
CancelledWaitWrapped ==
    CancelledWaiting => (~wt.invoked /\ wt.ret = WaitFailedStatus)

(***************************************************************************)
(* Properties of the MemoryBackend (specification SpecBackend).             *)
(***************************************************************************)
\* the entry last stored under key is still there: it was neither deleted,
\* cleared nor evicted, and its TTL, if it has one, has not passed
StillStored(key) ==
    /\ key \in DOMAIN gor.stored
    /\ gor.stored[key].ttl > 0 => now <= gor.stored[key].at + gor.stored[key].ttl

\* C24: after Set(key, value) and before the TTL passes or the entry is
\* evicted, deleted or cleared, Get(key) returns found = true with exactly
\* the stored bytes and Hits goes up by one; after Delete(key) or Clear a
\* Get(key) is a miss until the key is set again.
C24_SetThenGet ==
    gor.last.op = "get" =>
        /\ StillStored(gor.last.key) =>
              /\ gor.last.found
              /\ gor.last.value = gor.stored[gor.last.key].value
              /\ mb.stats.Hits = gor.last.hits + 1
        /\ gor.last.key \notin DOMAIN gor.stored =>
              /\ ~gor.last.found
              /\ mb.stats.Hits = gor.last.hits

\* a Get found the value that was set over an earlier one
C24_Witness ==
    /\ gor.last.op = "get"
    /\ gor.last.found
    /\ gor.last.value = "v2"
    /\ gor.sets >= 2
    /\ mb.stats.Hits = 1

\* the map never holds more than maxSize entries
SizeBounded == mb.maxSize > 0 => Len_data(mb) <= mb.maxSize

\* the keys that a step takes out of the map
Evicted == DOMAIN mb.data \ DOMAIN mb'.data

\* a Set of a new key into a full map evicts exactly one entry, one whose
\* last access is the oldest, and counts one eviction
SetEvictsOldest ==
    ( /\ gor'.sets = gor.sets + 1
      /\ mb.maxSize > 0
      /\ gor'.last.key \notin DOMAIN mb.data
      /\ Len_data(mb) >= mb.maxSize )
    => /\ Cardinality(Evicted) = 1
       /\ \A k \in Evicted : \A j \in DOMAIN mb.data :
              mb.data[k].AccessedAt <= mb.data[j].AccessedAt
       /\ mb'.stats.Evictions = mb.stats.Evictions + 1

\* C26: with maxSize > 0 the backend never holds more than maxSize entries;
\* a Set whose insert would exceed maxSize evicts exactly one entry, the one
\* with the oldest last-access time (a Get hit refreshes that time), and
\* counts one eviction.
C26_EvictsOldestAtCapacity == []SizeBounded /\ [][SetEvictsOldest]_vars

(***************************************************************************)
(* Properties of the MemoryBackend under concurrent use (specification      *)
(* SpecConcurrent).                                                         *)
(***************************************************************************)
\* no goroutine is inside the backend
Quiescent == \A p \in Goroutines : gor.procs[p].pc = "idle"

\* HitRate is Hits / (Hits + Misses)
HitRateExact ==
    mb.stats.Hits + mb.stats.Misses > 0 =>
        mb.stats.HitRate[1] * (mb.stats.Hits + mb.stats.Misses)
            = mb.stats.Hits * mb.stats.HitRate[2]

\* C27: under concurrent use the statistics are exact: Hits + Misses is the
\* number of Get calls, Sets the number of Set calls, Deletes the number of
\* keys Delete removed, Size the number of stored entries and HitRate is
\* Hits / (Hits + Misses).
C27_StatsExact ==
    Quiescent =>
        /\ mb.stats.Hits + mb.stats.Misses = gor.gets
        /\ mb.stats.Sets = gor.sets
        /\ mb.stats.Deletes = gor.removed
        /\ Stats(mb).Size = Len_data(mb)
        /\ HitRateExact

\* what does hold: the counters written under the write lock
WriterStatsExact ==
    Quiescent =>
        /\ mb.stats.Sets = gor.sets
        /\ mb.stats.Deletes = gor.removed
        /\ Stats(mb).Size = Len_data(mb)
        /\ mb.stats.Hits + mb.stats.Misses <= gor.gets

(***************************************************************************)
(* Properties of the Cache middleware (specification SpecCache).            *)
(***************************************************************************)
\* a step is a call of the middleware; cmw'.last describes it
IsCacheCall == cmw'.served = cmw.served + 1

\* the key of the call
CallKey(c) == GenerateKey(c.method, c.req)

\* a call is not eligible for caching: its method is in skip-methods, or
\* only-methods is non-empty and does not contain it, or a user identity is
\* present while skip-if-authenticated is on
Ineligible(c) ==
    \/ c.method \in cmw.config.SkipMethods
    \/ cmw.config.OnlyMethods # {} /\ c.method \notin cmw.config.OnlyMethods
    \/ c.user # << >> /\ cmw.config.SkipAuth

\* the same, with skip-methods consulted only when only-methods is empty
IneligibleByPrecedence(c) ==
    \/ cmw.config.OnlyMethods = {} /\ c.method \in cmw.config.SkipMethods
    \/ cmw.config.OnlyMethods # {} /\ c.method \notin cmw.config.OnlyMethods
    \/ c.user # << >> /\ cmw.config.SkipAuth

\* an eligible call whose key holds a stored, unexpired result returns a
\* response equal to the one the handler returned, without the handler;
\* any other eligible call invokes the handler once and stores a result
\* without error
HitEqualsHandlerResult ==
    (IsCacheCall /\ ~Ineligible(cmw'.last)) =>
        LET c == cmw'.last
            k == CallKey(c)
        IN IF StillStored(k)
           THEN /\ ~c.invoked
                /\ cmw'.handled = cmw.handled
                /\ c.ret = gor.stored[k].res
           ELSE /\ c.invoked
                /\ cmw'.handled = cmw.handled + 1
                /\ c.ret = c.res
                /\ c.res.err.kind = "nil" =>
                       (k \in DOMAIN mb'.data /\ gor'.stored[k].res = c.res)

\* C23: for a cacheable method the first call is a miss that invokes the
\* handler once and stores the result; later calls with the same method and
\* request, before the TTL passes, an eviction or an invalidation, return a
\* response equal to the one the handler returned without invoking the
\* handler; a call with a different request is its own miss.
C23_HitReturnsHandlerResponse == [][HitEqualsHandlerResult]_vars

\* what the code does: the response of a hit is the JSON round trip of the
\* handler's response
HitIsRoundTrip ==
    (IsCacheCall /\ ~Ineligible(cmw'.last)) =>
        LET c == cmw'.last
            k == CallKey(c)
        IN IF StillStored(k)
           THEN /\ ~c.invoked
                /\ c.ret.resp = UnmarshalValue(MarshalValue(gor.stored[k].res.resp))
           ELSE c.invoked /\ c.ret = c.res

HitReturnsRoundTrip == [][HitIsRoundTrip]_vars

\* the TTL the middleware resolves for a method
ResolvedTTL(method) ==
    IF method \in DOMAIN cmw.config.MethodTTLs
    THEN cmw.config.MethodTTLs[method] ELSE cmw.config.TTL

\* the entry under key k is in the map and its expires-at has passed
ExpiredInMap(k) ==
    /\ k \in DOMAIN mb.data
    /\ mb.data[k].ExpiresAt # ZeroTime
    /\ now > mb.data[k].ExpiresAt

\* Get of an entry whose expires-at has passed is a miss
GetMissesExpired == \A k \in DOMAIN mb.data : ExpiredInMap(k) => ~Get(mb, k, now).found

\* an eligible call on an expired entry that is still in the map invokes
\* the handler; what a call stores expires after the resolved TTL
ExpiredIsRefetched ==
    (IsCacheCall /\ ~Ineligible(cmw'.last)) =>
        LET c == cmw'.last
            k == CallKey(c)
        IN /\ ExpiredInMap(k) => (~c.hit /\ c.invoked /\ c.ret = c.res)
           /\ c.written =>
                 mb'.data[k].ExpiresAt =
                     IF ResolvedTTL(c.method) > 0
                     THEN now + ResolvedTTL(c.method) ELSE ZeroTime

\* C25: once an entry's expires-at has passed, Get is a miss even though the
\* sweeper has not removed the entry, and the middleware invokes the handler
\* again; the expiry is the per-method TTL after the store when one is
\* configured for the method, the default TTL otherwise.
C25_ExpiredEntryMisses == []GetMissesExpired /\ [][ExpiredIsRefetched]_vars

\* a call found its entry expired and still in the map, and the handler ran
C25_Witness ==
    /\ cmw.last.expired
    /\ cmw.last.method = "/M2"
    /\ ~cmw.last.hit
    /\ cmw.last.invoked
    /\ cmw.handled = 2

\* an ineligible call goes to the handler and leaves the backend alone
IneligibleBypasses ==
    (IsCacheCall /\ Ineligible(cmw'.last)) =>
        /\ cmw'.last.invoked
        /\ cmw'.handled = cmw.handled + 1
        /\ cmw'.last.ret = cmw'.last.res
        /\ ~cmw'.last.read /\ ~cmw'.last.written
        /\ mb' = mb

\* C28: a call that is not eligible (method in skip-methods, or only-methods
\* non-empty and not containing it, or user identity present while
\* skip-if-authenticated is on) bypasses the cache: the handler is invoked
\* every time and the backend is neither read nor written.
C28_IneligibleBypassesCache == [][IneligibleBypasses]_vars

\* what the code does: the same with skip-methods ignored as soon as
\* only-methods is non-empty
PrecedenceBypasses ==
    (IsCacheCall /\ IneligibleByPrecedence(cmw'.last)) =>
        /\ cmw'.last.invoked
        /\ cmw'.last.ret = cmw'.last.res
        /\ ~cmw'.last.read /\ ~cmw'.last.written
        /\ mb' = mb

IneligibleByPrecedenceBypasses == [][PrecedenceBypasses]_vars

\* the code and message a status error made of err carries
CodeOf(err) == IF err.kind = "status" THEN err.code ELSE "Unknown"

\* an error result is stored only with cache-errors; without it the map is
\* as before and the next identical call reaches the handler; with it the
\* next identical call gets a status error of the same code and message
ErrorsCachedOnlyWhenEnabled ==
    (IsCacheCall /\ ~Ineligible(cmw'.last)) =>
        LET c == cmw'.last
            k == CallKey(c)
        IN /\ (c.invoked /\ c.res.err.kind # "nil" /\ ~cmw.config.CacheErrors) =>
                 (~c.written /\ mb'.data = mb.data /\ gor'.stored = gor.stored)
           /\ (c.invoked /\ c.res.err.kind # "nil" /\ cmw.config.CacheErrors) =>
                 (c.written /\ k \in DOMAIN mb'.data /\ gor'.stored[k].res = c.res)
           /\ k \notin DOMAIN gor.stored => c.invoked
           /\ (StillStored(k) /\ gor.stored[k].res.err.kind # "nil") =>
                 /\ ~c.invoked
                 /\ c.ret.err.kind = "status"
                 /\ c.ret.err.code = CodeOf(gor.stored[k].res.err)
                 /\ c.ret.err.msg = gor.stored[k].res.err.msg

\* C29: an error result is stored only when cache-errors is enabled; when
\* disabled an error leaves the cache unchanged and the next identical call
\* invokes the handler again; when enabled the next identical call returns a
\* status error with the same code and message without invoking the handler.
C29_ErrorCaching == [][ErrorsCachedOnlyWhenEnabled]_vars

\* a hit returned a cached error
C29_Witness ==
    /\ cmw.last.hit
    /\ ~cmw.last.invoked
    /\ cmw.last.ret.err.kind = "status"
    /\ cmw.last.ret.err.code = "InvalidArgument"
    /\ cmw.handled = 1

(***************************************************************************)
(* Properties of the chain (specification SpecChain).                       *)
(***************************************************************************)
\* the list of events <<kind, m>> for the middlewares ms, in order
EventsOf(kind, ms) == [i \in 1..Len(ms) |-> <<kind, ms[i]>>]

\* a list backwards
Reversed(ms) == [i \in 1..Len(ms) |-> ms[Len(ms) + 1 - i]]

\* C30: a call through a chain m1..mn whose middlewares each call next once
\* enters m1, then m2, ..., then mn, runs the handler exactly once and
\* leaves mn, ..., m1; an empty chain calls the handler directly with the
\* same context and request and returns its result unchanged.
C30_ChainOrder ==
    chn.pc = "done" =>
        /\ chn.trace = EventsOf("enter", chn.middlewares)
                          \o << <<"handler", "">> >>
                          \o EventsOf("leave", Reversed(chn.middlewares))
        /\ chn.ret = chn.res
        /\ chn.middlewares = << >> =>
               (chn.args = <<chn.ctx, chn.req>> /\ chn.trace = << <<"handler", "">> >>)
        /\ chn.args[1] = SubSeq(chn.ctx, 1, Len(chn.ctx) - Len(chn.middlewares))
                             \o chn.middlewares

\* a call through three different middlewares has returned
C30_Witness ==
    /\ chn.pc = "done"
    /\ chn.middlewares = <<"a", "b", "c">>
    /\ Len(chn.trace) = 7

(***************************************************************************)
(* Properties of a chain in use (specification SpecChainOps).               *)
(***************************************************************************)
\* the middlewares a finished call entered, in order
Entered ==
    LET RECURSIVE Pick(_)
        Pick(i) == IF i > Len(chn.trace) THEN << >>
                   ELSE IF chn.trace[i][1] = "enter"
                        THEN <<chn.trace[i][2]>> \o Pick(i + 1)
                        ELSE Pick(i + 1)
    IN Pick(1)

\* C31: an interceptor obtained from UnaryInterceptor always runs the
\* middleware sequence the chain had when it was obtained, whatever Append
\* or Prepend did to the chain afterwards.
C31_InterceptorFixed ==
    (chn.pc = "done" /\ chn.kind = "unary") => Entered = chn.obtained

\* C40: for a chain built through NewChain, Append and Prepend the
\* stream-middleware list is empty, and a call of the interceptor of
\* StreamInterceptor runs the stream handler directly, with what the
\* interceptor was called with, and enters no middleware of the chain.
C40_StreamBypassesChain ==
    /\ chn.streamMiddlewares = << >>
    /\ chn.kind = "stream" =>
          /\ chn.active = << >>
          /\ Entered = << >>
          /\ chn.pc = "done" =>
                /\ chn.trace = << <<"handler", "">> >>
                /\ chn.args = <<chn.ctx, chn.req>>
                /\ chn.ret = chn.res

\* a stream call has returned from a chain of three middlewares, one
\* appended and one prepended
C40_Witness ==
    /\ chn.kind = "stream"
    /\ chn.pc = "done"
    /\ Len(chn.middlewares) = MaxChain
    /\ chn.ops = MaxChainOps
    /\ chn.trace = << <<"handler", "">> >>

(***************************************************************************)
(* Properties of the constructors (specification SpecConfig).               *)
(***************************************************************************)
\* the option values given to the last constructor are not all valid
InvalidGiven ==
    CASE cons.kind = "retry" ->
            \/ cons.given.maxAttempts <= 0
            \/ cons.given.initialBackoff <= 0
            \/ cons.given.maxBackoff <= 0
            \/ cons.given.multiplier[1] <= cons.given.multiplier[2]
      [] cons.kind = "breaker" ->
            \/ cons.given.failureThreshold[1] <= 0
            \/ cons.given.failureThreshold[1] > cons.given.failureThreshold[2]
      [] cons.kind = "cache" -> cons.given.TTL < 0
      [] OTHER -> FALSE

\* C32: a constructor given an invalid option value (max-attempts <= 0, a
\* backoff duration <= 0, a multiplier <= 1, a failure-threshold outside
\* (0,1], a TTL < 0) reports an error.
C32_InvalidReported == InvalidGiven => cons.err # "nil"

Completed == calls - InFlightTotal

\* C34: however long the breaker has been Closed, a window in which at
\* least 10 requests complete with a failure ratio at or above
\* failure-threshold (here: they all fail) opens the breaker.
C34_WindowOpens == Completed >= MinRequests => cb.state = StateOpen

\* The same for a breaker that has been Closed for at most interval
WindowOpensWithinInterval ==
    (Completed >= MinRequests /\ now <= cb.interval) => cb.state = StateOpen

\* C37: with maxRequests >= 1 and successThreshold >= 1, requests that keep
\* arriving and probes that all succeed, a HalfOpen breaker eventually
\* becomes Closed.
C37_HalfOpenCloses == (cb.state = StateHalfOpen) ~> (cb.state = StateClosed)

\* The same with at least successThreshold probes allowed
HalfOpenClosesIfEnoughProbes ==
    (cb.state = StateHalfOpen /\ cb.maxRequests >= cb.successThreshold)
        ~> (cb.state = StateClosed)

(***************************************************************************)
(* Further properties of the Timeout middleware (specification              *)
(* SpecTimeout).                                                            *)
(***************************************************************************)
\* C35: when the middleware sees the handler's result while the context is
\* not done it takes that result, and a call that takes the result returns
\* it unchanged, releases the derived context and does not call onTimeout;
\* a call that ends on ctx.Done() calls onTimeout, when one is set, exactly
\* once with the full method name and the timeout; nothing is called after
\* the return.
C35_ResultOrCallback ==
    [][ /\ (tm.pc = "start" /\ tm'.pc # "start"
                /\ tm.resultChan # << >> /\ tm.ctxErr = "nil")
            => (tm'.pc = "received" /\ tm'.res = Head(tm.resultChan))
        /\ (tm.pc = "select" /\ tm.goroutine = "running" /\ tm'.goroutine # "running")
            => (tm'.pc = "received" /\ tm'.res \in TimeoutHandlerResults)
        /\ (tm.pc = "received" /\ tm'.pc # "received")
            => /\ tm'.pc = "done"
               /\ tm'.ret = tm.res
               /\ tm'.ctxErr # "nil"
               /\ tm'.onTimeout = << >>
        /\ (tm.pc = "ctxdone" /\ tm'.pc # "ctxdone")
            => /\ tm'.pc = "done"
               /\ tm'.onTimeout = IF tm.config.OnTimeout
                                  THEN << <<tm.method, tm.timeout>> >> ELSE << >>
        /\ tm.pc = "done" => (tm'.onTimeout = tm.onTimeout /\ tm'.ret = tm.ret)
      ]_vars

\* C35 witness: with a callback set, the handler returned before the
\* deadline of 2 ticks; the middleware returned its response, the derived
\* context is released and the callback was not called
C35_Witness ==
    /\ tm.pc = "done"
    /\ tm.config.OnTimeout
    /\ tm.parentErr = "nil"
    /\ now < tm.deadline
    /\ tm.ret = [resp |-> "success", err |-> NilErr]
    /\ tm.ctxErr = "context canceled"
    /\ tm.onTimeout = << >>

\* the goroutine of the handler is not blocked and resultChan holds at most
\* what its slots take
NeverBlocked ==
    /\ tm.goroutine # "blocked"
    /\ Len(tm.resultChan) <= ChanCap

\* after the middleware returned on ctx.Done(): the handler's return ends
\* the goroutine, its result stays in resultChan and what the middleware
\* returned is not changed
LateResultDropped ==
    (tm.pc = "done" /\ tm.goroutine = "running")
        => /\ tm'.pc = "done"
           /\ tm'.ret = tm.ret
           /\ tm'.goroutine # "running"
                => (tm'.goroutine = "exited" /\ Len(tm'.resultChan) = 1)

\* C38: after the middleware returned on expiry the goroutine ends as soon
\* as the handler returns: its send never blocks, and the late result is
\* not returned to anyone.
C38_LateResult == []NeverBlocked /\ [][LateResultDropped]_vars

\* C38 witness: the middleware returned DeadlineExceeded at the deadline,
\* then the handler returned and its goroutine ended, the result left in
\* resultChan
C38_Witness ==
    /\ tm.pc = "done"
    /\ tm.ret = TimeoutStatus
    /\ tm.ctxErr = "context deadline exceeded"
    /\ tm.goroutine = "exited"
    /\ Len(tm.resultChan) = 1

(***************************************************************************)
(* Overwriting a key of the MemoryBackend (specification SpecBackend).      *)
(***************************************************************************)
\* a Set of a key that is in the map replaces that key's entry only
OverwriteKeepsOthers ==
    (gor'.sets = gor.sets + 1 /\ gor'.last.key \in DOMAIN mb.data)
    => /\ Evicted = {}
       /\ \A k \in DOMAIN mb.data \ {gor'.last.key} : mb'.data[k] = mb.data[k]
       /\ mb'.data[gor'.last.key].Value = gor'.last.value
       /\ Len_data(mb') = Len_data(mb)
       /\ mb'.stats.Evictions = mb.stats.Evictions

\* C39: Set on a key that is already present replaces only that key's entry
\* and removes no other key, also when the map holds maxSize entries; the
\* number of entries is unchanged and no eviction is counted.
C39_OverwriteNoEviction == [][OverwriteKeepsOthers]_vars

\* The same while the map holds fewer than maxSize entries
OverwriteBelowCapacity ==
    [][Len_data(mb) < mb.maxSize => OverwriteKeepsOthers]_vars

(***************************************************************************)
(* Concurrent callers of the Cache middleware (specification SpecFlight).   *)
(***************************************************************************)
\* the goroutines whose handler runs for the cache key
InFlightFor(key) ==
    {p \in Goroutines : gor.procs[p].pc = "handler" /\ gor.procs[p].key = key}

\* C36 as claimed: for a cache key at most one invocation of the handler is
\* in flight at any time.
C36_SingleFlight ==
    \A p \in Goroutines : Cardinality(InFlightFor(gor.procs[p].key)) <= 1

\* the backend holds an entry for key that has not expired
Cached(key) == key \in DOMAIN mb.data /\ ~IsExpired(mb.data[key], now)

\* goroutine p enters the middleware: a hit returns without the handler, a
\* miss invokes the handler, whoever else runs it for the same key
MissInvokes(p) ==
    (gor.procs[p].pc = "idle" /\ gor'.procs[p].pc # "idle")
    => IF Cached(gor'.procs[p].key)
       THEN /\ gor'.procs[p].pc = "done"
            /\ cmw'.handled = cmw.handled
       ELSE /\ gor'.procs[p].pc = "handler"
            /\ cmw'.handled = cmw.handled + 1

\* the handler of goroutine p returns: p returns that result, which is in
\* the backend from then on when it is one the configuration caches
OwnResultReturned(p) ==
    (gor.procs[p].pc = "handler" /\ gor'.procs[p].pc # "handler")
    => /\ gor'.procs[p].pc = "done"
       /\ gor'.procs[p].ret \in FlightResults
       /\ (gor'.procs[p].ret.err.kind = "nil" \/ cmw.config.CacheErrors)
            => /\ gor.procs[p].key \in DOMAIN mb'.data
               /\ mb'.data[gor.procs[p].key].Value
                      = Marshal(gor'.procs[p].ret.resp, gor'.procs[p].ret.err)

\* C36 amended: the middleware does not single-flight: every caller that
\* misses on a key invokes the handler itself, so as many invocations can
\* be in flight for one key as callers missed on it, never more than there
\* are callers; each of them returns its own handler's result and stores
\* it, and a caller that finds the entry invokes no handler.
C36_EveryMissInvokes ==
    /\ [](\A p \in Goroutines :
            Cardinality(InFlightFor(gor.procs[p].key)) <= Cardinality(Goroutines))
    /\ [][\A p \in Goroutines : MissInvokes(p) /\ OwnResultReturned(p)]_vars

\* C36 witness: both goroutines missed on the same key and both handlers
\* are running
C36_Witness ==
    /\ gor.procs[1].pc = "handler"
    /\ gor.procs[2].pc = "handler"
    /\ gor.procs[1].key = gor.procs[2].key
    /\ cmw.handled = 2
====
